---- MODULE Spec2Model ----
(***************************************************************************)
(* kdeconnect-rs: the device-manager actor, the per-connection loops that  *)
(* feed it, the capacity-1 outboxes between them and the per-device plugin *)
(* repository.                                                             *)
(*                                                                         *)
(*   kdeconnect/src/device/manager.rs   DeviceManagerHandle / Actor        *)
(*   kdeconnect/src/device/handle.rs    DeviceHandle                       *)
(*   kdeconnect/src/main.rs             handle_conn, event_handler         *)
(*   kdeconnect/src/plugin/mod.rs       PluginRepository                   *)
(***************************************************************************)
EXTENDS Integers, Sequences, FiniteSets, Bags, TLC

(***************************************************************************)
(* Bounds of the model.                                                    *)
(***************************************************************************)
\* accepted TCP connections (tasks spawned by tcp_server)
MaxConns == 2
\* inbound lines read by all connection loops together
MaxLines == 2
\* system events forwarded by event_handler
MaxEvents == 1
\* Capacity of the actor's message queue.  manager.rs:160 creates it with
\* mpsc::channel(100); the model keeps the queue bounded and blocking but
\* scales the capacity down.
QueueCap == 1

(***************************************************************************)
(* Program constants.                                                      *)
(***************************************************************************)
\* mpsc::channel(1) in add_device: the per-connection outbox
OutboxCap == 1

PACKET_TYPE_IDENTITY == "kdeconnect.identity"
PACKET_TYPE_PAIR == "kdeconnect.pair"

Conns == 1..MaxConns
Devices == {"A", "B"}
NoDevice == [present |-> FALSE]

\* what a peer can put on the wire as one line: packets of these types, or
\* a line that is not a JSON packet
LineTypes == {PACKET_TYPE_PAIR, "kdeconnect.ping", "kdeconnect.battery.request",
              "kdeconnect.nonesuch"}
Garbage == "<not json>"
Lines == LineTypes \cup {Garbage}

SystemEvents == {"PowerStatusUpdated"}

(***************************************************************************)
(* Packets.                                                                *)
(***************************************************************************)
NetworkPacket(typ, body) == [typ |-> typ, body |-> body]

\* faulty variant: the reply carries the negated flag
new_pair_Negated(pair) == NetworkPacket(PACKET_TYPE_PAIR, [pair |-> ~pair])

new_pair(pair) == NetworkPacket(PACKET_TYPE_PAIR, [pair |-> pair])

\* serde_json::from_str::<NetworkPacket>(&line)
ParseOk(line) == line # Garbage

(***************************************************************************)
(* Plugin repository.                                                      *)
(***************************************************************************)
BatteryCaps == {"kdeconnect.battery", "kdeconnect.battery.request"}
PingCaps == {"kdeconnect.ping"}
ClipboardCaps == {"kdeconnect.clipboard", "kdeconnect.clipboard.connect"}
MprisCaps == {"kdeconnect.mpris", "kdeconnect.mpris.request"}
NotificationCaps == {"kdeconnect.notification"}
ShareCaps == {"kdeconnect.share.request", "kdeconnect.share.request.update"}
RunCommandCaps == {"kdeconnect.runcommand", "kdeconnect.runcommand.request"}
\* input_receive: the capability set of the mouse-input plugin
InputReceiveCaps == {"kdeconnect.mousepad.request"}

\* ALL_CAPS.0 (mod.rs:41-71): the incoming capabilities put into the
\* identity packet; the set of every plugin type is added whether or not
\* an instance of the plugin can be built
ALL_CAPS ==
    PingCaps \cup ClipboardCaps \cup MprisCaps \cup NotificationCaps
       \cup InputReceiveCaps \cup BatteryCaps \cup ShareCaps \cup RunCommandCaps

Plugin(name, caps) == [name |-> name, in_caps |-> caps]

\* PluginRepository::new: the plugins in registration order; the MPRIS
\* plugin is registered only if its constructor succeeded.
NewPluginRepository(mprisOk) ==
    <<Plugin("battery", BatteryCaps), Plugin("ping", PingCaps),
      Plugin("clipboard", ClipboardCaps)>>
    \o (IF mprisOk THEN <<Plugin("mpris", MprisCaps)>> ELSE <<>>)
    \o <<Plugin("notification", NotificationCaps), Plugin("input", InputReceiveCaps),
         Plugin("share", ShareCaps), Plugin("runcommand", RunCommandCaps)>>

\* PluginRepository::handle_packet: index of the plugin whose handle is
\* called, 0 when the loop falls through to the "No plugin found" error.
RECURSIVE FirstMatchFrom(_, _, _)
FirstMatchFrom(plugins, typ, i) ==
    IF i > Len(plugins) THEN 0
    ELSE IF typ \in plugins[i].in_caps THEN i
    ELSE FirstMatchFrom(plugins, typ, i + 1)

\* faulty variant: the first plugin is called whatever its capability set
handle_packet_NoCapsCheck(plugins, typ) == IF Len(plugins) > 0 THEN 1 ELSE 0

handle_packet(plugins, typ) == FirstMatchFrom(plugins, typ, 1)

VARIABLES
    NEXT_CONN_ID,        \* static AtomicUsize
    queue,               \* the actor's mpsc channel
    devices,             \* DeviceManagerActor.devices
    active_device_count, \* the published AtomicUsize
    actor,               \* where the actor task is
    pc,                  \* where each connection task is
    dev,                 \* device_id read from each connection's identity
    conn_id,             \* conn_id drawn by each connection in add_device
    outbox,              \* the mpsc::channel(1) created by each add_device
    cur,                 \* packet / line a connection task is working on
    wire,                \* packets each connection wrote to its stream
    tasks,               \* tasks spawned by the actor (tokio::spawn)
    handled,             \* (plugin, type) pairs for which handle was called
    nlines,              \* lines read so far
    nevents,             \* events forwarded so far
    lastAdd,             \* conn_id of the last AddDevice processed, per id
    removal,             \* what became of each connection's RemoveDevice
    hello,               \* what the peer presented during the handshake
    exit,                \* what broke the loop of a connection still in
                         \* handle_conn
    servers,             \* payload servers spawned by send_packet
    sent,                \* packets send_packet wrote, with their payload
                         \* fields
    lru,                 \* PayloadCache.cache, least recently used first
    disk,                \* the files under PayloadCache.cache_path
    icon,                \* where show_notification is in its icon path
    ops,                 \* cache calls made so far
    ret,                 \* the last cache call and what it returned
    okput,               \* per name, the data of the first put that
                         \* returned Ok
    udp,                 \* the udp_server task and what it did so far
    nsend,               \* SendPacket messages put into the queue by
                         \* DeviceManagerHandle::send_packet
    tcp,                 \* the call of open_tcp_server at startup
    psend,               \* the task that calls send_packet with payloads
    rxn,                 \* inbound packets numbered in wire order so far
    plog,                \* calls of handle made for inbound packets, in
                         \* the order made
    fetches,             \* the FetchPayload requests and their replies
    tray,                \* the last menu and icon sent to the event loop
    rbuf,                \* the line each read_line has read in part
    mpris,               \* MprisRemotePlugin::handle and the players lock
    audio,               \* the audio manager, its channels and a subscriber
    deb                  \* the Debouncer: channel, task, callback history

vars == <<NEXT_CONN_ID, queue, devices, active_device_count, actor, pc, dev,
          conn_id, outbox, cur, wire, tasks, handled, nlines, nevents,
          lastAdd, removal, hello, exit, servers, sent, lru, disk, icon,
          ops, ret, okput, udp, nsend, tcp, psend, rxn, plog, fetches,
          tray, rbuf, mpris, audio, deb>>

Idle == [pc |-> "recv"]

\* before main has called open_tcp_server
NotOpened == [called |-> FALSE, free |-> {}, kind |-> "", result |-> "",
              port |-> 0, error |-> [port |-> 0, kind |-> ""]]
NoHello == [first |-> "", tls |-> FALSE]

\* LruCache::new(10) in PayloadCache::new
LRU_CAPACITY == 10
\* cache names: enough of them to overflow the LRU
Names == 1..(LRU_CAPACITY + 1)
\* "no such file" (std::io::ErrorKind::NotFound)
NoFile == [exists |-> FALSE, bytes |-> <<>>]
\* a file holding the bytes b
File(b) == [exists |-> TRUE, bytes |-> b]
\* show_notification is not in its icon path
NoIcon == [pc |-> "idle"]

\* faulty variant: the icon follows the published count, not the map
update_tray_IconByCount(devs) ==
    [menu |-> [d \in {x \in Devices : devs[x].present} |->
                 [name |-> devs[d].name, remote_ip |-> devs[d].remote_ip]],
     icon |-> IF active_device_count = 0
              THEN "ICON_CELLPHONE_OFF" ELSE "ICON_CELLPHONE"]

\* DeviceManagerActor::update_tray (manager.rs:332-365): SetTrayMenu with one
\* item of name and address per record, then SetTrayIcon
update_tray(devs) ==
    [menu |-> [d \in {x \in Devices : devs[x].present} |->
                 [name |-> devs[d].name, remote_ip |-> devs[d].remote_ip]],
     icon |-> IF {x \in Devices : devs[x].present} = {}
              THEN "ICON_CELLPHONE_OFF" ELSE "ICON_CELLPHONE"]

Init ==
    /\ NEXT_CONN_ID = 0
    /\ queue = <<>>
    /\ devices = [d \in Devices |-> NoDevice]
    /\ active_device_count = 0
    /\ actor = Idle
    /\ pc = [c \in Conns |-> "accept"]
    /\ dev = [c \in Conns |-> "A"]
    /\ conn_id = [c \in Conns |-> -1]
    /\ outbox = [c \in Conns |-> <<>>]
    /\ cur = [c \in Conns |-> ""]
    /\ wire = [c \in Conns |-> <<>>]
    /\ tasks = EmptyBag
    /\ handled = {}
    /\ nlines = 0
    /\ nevents = 0
    /\ lastAdd = [d \in Devices |-> -1]
    /\ removal = [c \in Conns |-> "none"]
    /\ hello = [c \in Conns |-> NoHello]
    /\ exit = [c \in Conns |-> "none"]
    /\ servers = <<>>
    /\ sent = <<>>
    /\ lru = <<>>
    /\ disk = [n \in Names |-> NoFile]
    /\ icon = NoIcon
    /\ ops = [names |-> 0, gets |-> 0, reputs |-> 0, werrs |-> 0, shows |-> 0]
    /\ ret = [op |-> "", name |-> 0, result |-> [tag |-> "", data |-> <<>>],
              size |-> 0, nread |-> 0]
    /\ okput = [n \in Names |-> NoFile]
    /\ udp = [pc |-> "loop", ticks |-> 0, calls |-> 0, sent |-> 0, seen |-> 0]
    /\ nsend = 0
    /\ tcp = NotOpened
    /\ psend = [pc |-> "loop", nobind |-> 0]
    /\ rxn = 0
    /\ plog = <<>>
    /\ fetches = <<>>
    /\ tray = update_tray([d \in Devices |-> NoDevice])
    /\ rbuf = [c \in Conns |-> [state |-> "none", line |-> ""]]
    /\ mpris = [pc |-> "idle", dev |-> "A"]
    /\ audio = [pc |-> "select", pending |-> "", events |-> <<>>,
                commands |-> <<>>, subscribers |-> 0, notify |-> <<>>,
                sub |-> "start", reply |-> FALSE, nev |-> 0]
    /\ deb = [calls |-> <<>>, chan |-> <<>>, last_arg |-> <<>>, out |-> <<>>,
              became |-> <<>>, pc |-> "loop", open |-> TRUE]


(***************************************************************************)
(* Messages of the actor (device/mod.rs, enum Message).                    *)
(***************************************************************************)
AddDeviceMsg(id, k, tx) ==
    [type |-> "AddDevice", id |-> id, conn_id |-> k, tx |-> tx]
RemoveDeviceMsg(id, k) == [type |-> "RemoveDevice", id |-> id, conn_id |-> k]
SendPacketMsg(id, packet) ==
    [type |-> "SendPacket", device_id |-> id, packet |-> packet]
PacketMsg(id, typ) == [type |-> "Packet", device_id |-> id, typ |-> typ]
EventMsg(e) == [type |-> "Event", event |-> e]

\* self.sender.send(msg).await: completes only when the bounded queue has room
QueueHasRoom == Len(queue) < QueueCap
send_message(msg) == QueueHasRoom /\ queue' = Append(queue, msg)

(***************************************************************************)
(* Channel ends of the outbox created by connection c's add_device.        *)
(***************************************************************************)
\* the Receiver lives in handle_conn until the function returns
ReceiverDropped(c) == pc[c] = "done"

\* the Sender travels in the AddDevice message and then lives in the record
SenderAlive(c) ==
    \/ \E d \in Devices : devices[d].present /\ devices[d].tx = c
    \/ \E i \in 1..Len(queue) : queue[i].type = "AddDevice" /\ queue[i].tx = c
    \/ pc[c] = "add_send"

(***************************************************************************)
(* handle_conn (main.rs:199-321).                                          *)
(***************************************************************************)
\* outcome of the stream.flush() that ends every loop iteration (309-312)
AfterFlush(flushOk) == IF flushOk THEN "loop" ELSE "grace"

\* "Failed to flush stream" (310) is what ended the loop of c
ExitAfterFlush(c, flushOk) ==
    exit' = IF flushOk THEN exit ELSE [exit EXCEPT ![c] = "flush"]

\* the first line of a connection: an identity packet, a packet of another
\* type, or a line that is not JSON
FirstLines == {PACKET_TYPE_IDENTITY, PACKET_TYPE_PAIR, Garbage}

\* faulty variant: the result of the TLS upgrade is not checked
HandshakeOk_NoTlsCheck(first, tls) ==
    /\ ParseOk(first)
    /\ first = PACKET_TYPE_IDENTITY

\* 217-235: the first line must parse (226), be of type identity (227-229)
\* and the TLS client upgrade must succeed (233-235); each failure returns
\* Err from handle_conn before add_device is called
HandshakeOk(first, tls) ==
    /\ ParseOk(first)
    /\ first = PACKET_TYPE_IDENTITY
    /\ tls

\* connection b has passed the handshake checks and called add_device
Registering(b) == pc[b] \notin {"accept", "failed"}

\* 217-254 up to the fetch_add in add_device (manager.rs:65-66): identity
\* line read, TLS upgraded, channel created, conn_id drawn.  Connections are
\* numbered in the order in which they are accepted, and the first device
\* that passes the handshake is called "A".
Handshake(c, d, first, tls) ==
    /\ pc[c] = "accept"
    /\ \A b \in 1..(c - 1) : pc[b] # "accept"
    /\ (d # "A" => \E b \in Conns \ {c} : Registering(b) /\ dev[b] = "A")
    /\ (first # PACKET_TYPE_IDENTITY => tls /\ d = "A")
    /\ hello' = [hello EXCEPT ![c] = [first |-> first, tls |-> tls]]
    /\ IF HandshakeOk(first, tls)
       THEN /\ dev' = [dev EXCEPT ![c] = d]
            /\ conn_id' = [conn_id EXCEPT ![c] = NEXT_CONN_ID]
            /\ NEXT_CONN_ID' = NEXT_CONN_ID + 1
            /\ pc' = [pc EXCEPT ![c] = "add_send"]
       ELSE /\ d = "A"
            /\ pc' = [pc EXCEPT ![c] = "failed"]
            /\ UNCHANGED <<dev, conn_id, NEXT_CONN_ID>>
    /\ UNCHANGED <<servers, sent, lru, disk, icon, ops, ret, okput, udp,
                   nsend, tcp, psend, rxn, plog, fetches, tray, rbuf, mpris,
                   audio, deb>>
    /\ UNCHANGED <<queue, devices, active_device_count, actor, outbox, cur,
                   wire, tasks, handled, nlines, nevents, lastAdd, removal,
                   exit>>

\* add_device: self.send_message(AddDevice).await, then wait for the reply
AddDeviceSend(c) ==
    /\ pc[c] = "add_send"
    /\ send_message(AddDeviceMsg(dev[c], conn_id[c], c))
    /\ pc' = [pc EXCEPT ![c] = "add_wait"]
    /\ UNCHANGED <<servers, sent, lru, disk, icon, ops, ret, okput, udp,
                   nsend, tcp, psend, rxn, plog, fetches, tray, rbuf, mpris,
                   audio, deb>>
    /\ UNCHANGED <<NEXT_CONN_ID, devices, active_device_count, actor, dev,
                   conn_id, outbox, cur, wire, tasks, handled, nlines,
                   nevents, lastAdd, removal, hello, exit>>

\* faulty variant: the packet written stays in the channel
OutboxRecv_NoPop(c, io, flushOk) ==
    /\ pc[c] = "loop"
    /\ outbox[c] # <<>>
    /\ outbox' = outbox
    /\ \/ /\ io = "ok"
          /\ wire' = [wire EXCEPT ![c] = Append(wire[c], Head(outbox[c]))]
          /\ pc' = [pc EXCEPT ![c] = AfterFlush(flushOk)]
          /\ ExitAfterFlush(c, flushOk)
       \/ /\ io = "err"
          /\ flushOk
          /\ wire' = wire
          /\ pc' = [pc EXCEPT ![c] = "grace"]
          /\ exit' = [exit EXCEPT ![c] = "send"]
       \/ /\ io = "pending"
          /\ flushOk
          /\ wire' = wire
          /\ pc' = [pc EXCEPT ![c] = "stalled"]
          /\ exit' = exit
    /\ UNCHANGED <<servers, sent, lru, disk, icon, ops, ret, okput, udp,
                   nsend, tcp, psend, rxn, plog, fetches, tray, rbuf, mpris,
                   audio, deb>>
    /\ UNCHANGED <<NEXT_CONN_ID, queue, devices, active_device_count, actor,
                   dev, conn_id, cur, tasks, handled, nlines, nevents,
                   lastAdd, removal, hello>>

\* select!: packet_rx.recv() yields Some(packet) and send_packet writes it
\* (260-266, 187-196), then the flush of line 309.  io is the outcome of the
\* write on the stream: "ok", "err" (write_all or flush failed) or "pending"
\* (the peer has stopped reading, the write never completes).
\* The read_line future that lost the race is dropped with the bytes it had
\* taken from the stream; the rest of that line stays in the stream.
OutboxRecv(c, io, flushOk) ==
    /\ pc[c] = "loop"
    /\ outbox[c] # <<>>
    /\ outbox' = [outbox EXCEPT ![c] = Tail(outbox[c])]
    /\ \/ /\ io = "ok"
          /\ wire' = [wire EXCEPT ![c] = Append(wire[c], Head(outbox[c]))]
          /\ pc' = [pc EXCEPT ![c] = AfterFlush(flushOk)]
          /\ ExitAfterFlush(c, flushOk)
       \/ /\ io = "err"
          /\ flushOk
          /\ wire' = wire
          /\ pc' = [pc EXCEPT ![c] = "grace"]
          /\ exit' = [exit EXCEPT ![c] = "send"]
       \/ /\ io = "pending"
          /\ flushOk
          /\ wire' = wire
          /\ pc' = [pc EXCEPT ![c] = "stalled"]
          /\ exit' = exit
    /\ rbuf' = [rbuf EXCEPT ![c] = IF @.state = "partial"
                                    THEN [@ EXCEPT !.state = "tail"] ELSE @]
    /\ UNCHANGED <<servers, sent, lru, disk, icon, ops, ret, okput, udp,
                   nsend, tcp, psend, rxn, plog, fetches, tray, mpris, audio,
                   deb>>
    /\ UNCHANGED <<NEXT_CONN_ID, queue, devices, active_device_count, actor,
                   dev, conn_id, cur, tasks, handled, nlines, nevents,
                   lastAdd, removal, hello>>

\* select!: packet_rx.recv() yields None: every Sender is gone (267-270)
OutboxClosed(c) ==
    /\ pc[c] = "loop"
    /\ outbox[c] = <<>>
    /\ ~SenderAlive(c)
    /\ pc' = [pc EXCEPT ![c] = "grace"]
    /\ exit' = [exit EXCEPT ![c] = "closed"]
    /\ UNCHANGED <<servers, sent, lru, disk, icon, ops, ret, okput, udp,
                   nsend, tcp, psend, rxn, plog, fetches, tray, rbuf, mpris,
                   audio, deb>>
    /\ UNCHANGED <<NEXT_CONN_ID, queue, devices, active_device_count, actor,
                   dev, conn_id, outbox, cur, wire, tasks, handled, nlines,
                   nevents, lastAdd, removal, hello>>

\* select!: read_line yields Ok(0) or Err (276-283)
ReadEnd(c, how) ==
    /\ pc[c] = "loop"
    /\ how \in {"eof", "error"}
    /\ pc' = [pc EXCEPT ![c] = "grace"]
    /\ exit' = [exit EXCEPT ![c] = "read"]
    /\ UNCHANGED <<servers, sent, lru, disk, icon, ops, ret, okput, udp,
                   nsend, tcp, psend, rxn, plog, fetches, tray, rbuf, mpris,
                   audio, deb>>
    /\ UNCHANGED <<NEXT_CONN_ID, queue, devices, active_device_count, actor,
                   dev, conn_id, outbox, cur, wire, tasks, handled, nlines,
                   nevents, lastAdd, removal, hello>>

\* select!: read_line yields Ok(n > 0): `line` holds what the peer sent
ReadLine(c, line) ==
    /\ pc[c] = "loop"
    /\ nlines < MaxLines
    /\ nlines' = nlines + 1
    /\ cur' = [cur EXCEPT ![c] = line]
    /\ pc' = [pc EXCEPT ![c] = "line"]
    /\ UNCHANGED <<servers, sent, lru, disk, icon, ops, ret, okput, udp,
                   nsend, tcp, psend, rxn, plog, fetches, tray, rbuf, mpris,
                   audio, deb>>
    /\ UNCHANGED <<NEXT_CONN_ID, queue, devices, active_device_count, actor,
                   dev, conn_id, outbox, wire, tasks, handled, nevents,
                   lastAdd, removal, hello, exit>>

\* faulty variant: a line that fails to parse breaks the loop
ParseError_BreaksLoop(c, flushOk) ==
    /\ pc[c] = "line"
    /\ ~ParseOk(cur[c])
    /\ cur' = [cur EXCEPT ![c] = ""]
    /\ pc' = [pc EXCEPT ![c] = "grace"]
    /\ exit' = [exit EXCEPT ![c] = IF flushOk THEN "read" ELSE "flush"]
    /\ UNCHANGED <<servers, sent, lru, disk, icon, ops, ret, okput, udp,
                   nsend, tcp, psend, rxn, plog, fetches, tray, rbuf, mpris,
                   audio, deb>>
    /\ UNCHANGED <<NEXT_CONN_ID, queue, devices, active_device_count, actor,
                   dev, conn_id, outbox, wire, tasks, handled, nlines,
                   nevents, lastAdd, removal, hello>>

\* serde_json::from_str failed: "Failed to parse packet" (302-304)
ParseError(c, flushOk) ==
    /\ pc[c] = "line"
    /\ ~ParseOk(cur[c])
    /\ cur' = [cur EXCEPT ![c] = ""]
    /\ pc' = [pc EXCEPT ![c] = AfterFlush(flushOk)]
    /\ ExitAfterFlush(c, flushOk)
    /\ UNCHANGED <<servers, sent, lru, disk, icon, ops, ret, okput, udp,
                   nsend, tcp, psend, rxn, plog, fetches, tray, rbuf, mpris,
                   audio, deb>>
    /\ UNCHANGED <<NEXT_CONN_ID, queue, devices, active_device_count, actor,
                   dev, conn_id, outbox, wire, tasks, handled, nlines,
                   nevents, lastAdd, removal, hello>>

\* the pair branch (291-297):
\* NetworkPacket::new_pair(true).write_to_conn(&mut stream).await?
\* On "err" the `?` returns Err from handle_conn at once: lines 315-318 are
\* skipped and packet_rx is dropped.
PairReply(c, io, flushOk) ==
    /\ pc[c] = "line"
    /\ ParseOk(cur[c])
    /\ cur[c] = PACKET_TYPE_PAIR
    /\ cur' = [cur EXCEPT ![c] = ""]
    /\ \/ /\ io = "ok"
          /\ wire' = [wire EXCEPT ![c] = Append(wire[c], new_pair(TRUE))]
          /\ pc' = [pc EXCEPT ![c] = AfterFlush(flushOk)]
          /\ ExitAfterFlush(c, flushOk)
          /\ outbox' = outbox
       \/ /\ io = "err"
          /\ flushOk
          /\ wire' = wire
          /\ pc' = [pc EXCEPT ![c] = "done"]
          /\ exit' = exit
          /\ outbox' = [outbox EXCEPT ![c] = <<>>]
       \/ /\ io = "pending"
          /\ flushOk
          /\ wire' = wire
          /\ pc' = [pc EXCEPT ![c] = "stalled"]
          /\ exit' = exit
          /\ outbox' = outbox
    /\ UNCHANGED <<servers, sent, lru, disk, icon, ops, ret, okput, udp,
                   nsend, tcp, psend, rxn, plog, fetches, tray, rbuf, mpris,
                   audio, deb>>
    /\ UNCHANGED <<NEXT_CONN_ID, queue, devices, active_device_count, actor,
                   dev, conn_id, tasks, handled, nlines, nevents, lastAdd,
                   removal, hello>>

\* any other packet (298-300):
\* device_handle.dispatch_packet(packet).await (handle.rs:41-48)
dispatch_packet(c, flushOk) ==
    /\ pc[c] = "line"
    /\ ParseOk(cur[c])
    /\ cur[c] # PACKET_TYPE_PAIR
    /\ send_message(PacketMsg(dev[c], cur[c]))
    /\ cur' = [cur EXCEPT ![c] = ""]
    /\ pc' = [pc EXCEPT ![c] = AfterFlush(flushOk)]
    /\ ExitAfterFlush(c, flushOk)
    /\ UNCHANGED <<servers, sent, lru, disk, icon, ops, ret, okput, udp,
                   nsend, tcp, psend, rxn, plog, fetches, tray, rbuf, mpris,
                   audio, deb>>
    /\ UNCHANGED <<NEXT_CONN_ID, devices, active_device_count, actor, dev,
                   conn_id, outbox, wire, tasks, handled, nlines, nevents,
                   lastAdd, removal, hello>>

\* after the loop: sleep(1 s), remove_device(device_id, conn_id).await,
\* Ok(()) (315-320)
remove_device(c) ==
    /\ pc[c] = "grace"
    /\ send_message(RemoveDeviceMsg(dev[c], conn_id[c]))
    /\ pc' = [pc EXCEPT ![c] = "done"]
    /\ outbox' = [outbox EXCEPT ![c] = <<>>]
    /\ removal' = [removal EXCEPT ![c] = "issued"]
    /\ exit' = [exit EXCEPT ![c] = "none"]
    /\ UNCHANGED <<servers, sent, lru, disk, icon, ops, ret, okput, udp,
                   nsend, tcp, psend, rxn, plog, fetches, tray, rbuf, mpris,
                   audio, deb>>
    /\ UNCHANGED <<NEXT_CONN_ID, devices, active_device_count, actor, dev,
                   conn_id, cur, wire, tasks, handled, nlines, nevents,
                   lastAdd, hello>>

(***************************************************************************)
(* Tasks that put messages into the actor's queue from outside the         *)
(* connections: event_handler and the tasks the actor spawned.             *)
(***************************************************************************)
Spawn(bag, t) == bag (+) SetToBag({t})
Finish(bag, t) == bag (-) SetToBag({t})

PacketTask(id, pr, typ) ==
    [kind |-> "handle_packet", dev |-> id, pr |-> pr, typ |-> typ]
EventTask(id, pr, e) ==
    [kind |-> "handle_event", dev |-> id, pr |-> pr, event |-> e]
SendTask(msg) == [kind |-> "send_message", msg |-> msg]

\* event_handler (main.rs:346-351): broadcast_event(message).await
event_handler(e) ==
    /\ nevents < MaxEvents
    /\ nevents' = nevents + 1
    /\ send_message(EventMsg(e))
    /\ UNCHANGED <<servers, sent, lru, disk, icon, ops, ret, okput, udp,
                   nsend, tcp, psend, rxn, plog, fetches, tray, rbuf, mpris,
                   audio, deb>>
    /\ UNCHANGED <<NEXT_CONN_ID, devices, active_device_count, actor, pc, dev,
                   conn_id, cur, wire, outbox, tasks, handled, nlines,
                   lastAdd, removal, hello, exit>>

\* BatteryPlugin::send_battery_status: returns without sending when the
\* host reports no battery, otherwise sends a battery report to its device.
BatteryReport == NetworkPacket("kdeconnect.battery", "report")

\* KdeConnectPlugin::handle of the registered plugins, as far as the core sees
\* it: the messages the call may send to the manager (sends = TRUE / FALSE).
PluginHandleSends(name, typ) ==
    IF name = "battery" /\ typ = "kdeconnect.battery.request"
    THEN {TRUE, FALSE} ELSE {FALSE}

\* KdeConnectPlugin::handle_event, likewise
PluginEventSends(name, e) ==
    IF name = "battery" /\ e = "PowerStatusUpdated"
    THEN {TRUE, FALSE} ELSE {FALSE}

\* the task spawned for Message::Packet (manager.rs:276-280) runs
\* pr.handle_packet(packet): first match wins, no match is an error
RunHandlePacket(t, sends) ==
    /\ t \in BagToSet(tasks)
    /\ t.kind = "handle_packet"
    /\ LET i == handle_packet(t.pr, t.typ) IN
         IF i = 0
         THEN /\ sends = FALSE
              /\ tasks' = Finish(tasks, t)
              /\ handled' = handled
         ELSE /\ sends \in PluginHandleSends(t.pr[i].name, t.typ)
              /\ handled' = handled \cup {<<t.pr[i].name, t.typ>>}
              /\ tasks' = IF sends
                          THEN Spawn(Finish(tasks, t),
                                     SendTask(SendPacketMsg(t.dev, BatteryReport)))
                          ELSE Finish(tasks, t)
    /\ UNCHANGED <<servers, sent, lru, disk, icon, ops, ret, okput, udp,
                   nsend, tcp, psend, rxn, plog, fetches, tray, rbuf, mpris,
                   audio, deb>>
    /\ UNCHANGED <<NEXT_CONN_ID, queue, devices, active_device_count, actor,
                   pc, dev, conn_id, cur, wire, outbox, nlines, nevents,
                   lastAdd, removal, hello, exit>>

\* the task spawned for Message::Event (manager.rs:262-264) runs
\* pr.handle_event(event): every plugin in turn
RunHandleEvent(t, sends) ==
    /\ t \in BagToSet(tasks)
    /\ t.kind = "handle_event"
    /\ sends \in PluginEventSends(t.pr[1].name, t.event)
    /\ tasks' = IF sends
                THEN Spawn(Finish(tasks, t),
                           SendTask(SendPacketMsg(t.dev, BatteryReport)))
                ELSE Finish(tasks, t)
    /\ UNCHANGED <<servers, sent, lru, disk, icon, ops, ret, okput, udp,
                   nsend, tcp, psend, rxn, plog, fetches, tray, rbuf, mpris,
                   audio, deb>>
    /\ UNCHANGED <<NEXT_CONN_ID, queue, devices, active_device_count, actor,
                   pc, dev, conn_id, cur, wire, outbox, handled, nlines,
                   nevents, lastAdd, removal, hello, exit>>

\* DeviceHandle::send_packet -> DeviceManagerHandle::send_packet ->
\* send_message(SendPacket).await from inside a plugin call
RunSendMessage(t) ==
    /\ t \in BagToSet(tasks)
    /\ t.kind = "send_message"
    /\ send_message(t.msg)
    /\ tasks' = Finish(tasks, t)
    /\ UNCHANGED <<servers, sent, lru, disk, icon, ops, ret, okput, udp,
                   nsend, tcp, psend, rxn, plog, fetches, tray, rbuf, mpris,
                   audio, deb>>
    /\ UNCHANGED <<NEXT_CONN_ID, devices, active_device_count, actor, pc, dev,
                   conn_id, cur, wire, outbox, handled, nlines, nevents,
                   lastAdd, removal, hello, exit>>

(***************************************************************************)
(* DeviceManagerActor (manager.rs:158-377).                                *)
(***************************************************************************)
DeviceKeys == {d \in Devices : devices[d].present}

\* struct Device (143-149).  The name and the address a record holds are
\* those presented on a connection and are written as that connection.
Device(k, tx, pr) ==
    [present |-> TRUE, name |-> tx, remote_ip |-> tx, conn_id |-> k,
     tx |-> tx, plugin_repo |-> pr]

\* faulty variant: the count is taken before the map is changed
update_active_device_count_Early(devs) == Cardinality(DeviceKeys)

\* update_active_device_count: the value stored for a given map
update_active_device_count(devs) ==
    Cardinality({d \in Devices : devs[d].present})

\* run: while let Some(msg) = self.receiver.recv().await
Receives(type) ==
    /\ actor.pc = "recv"
    /\ queue # <<>>
    /\ Head(queue).type = type
    /\ queue' = Tail(queue)

\* faulty variant: a reconnect replaces the outbox but keeps the old conn_id
AddDeviceMap_KeepConnId(devs, msg, pr) ==
    IF devs[msg.id].present
    THEN [devs EXCEPT ![msg.id].tx = msg.tx]
    ELSE [devs EXCEPT ![msg.id] = Device(msg.conn_id, msg.tx, pr)]

\* faulty variant: an AddDevice for an id already in the map is ignored
AddDeviceMap_IgnoreReconnect(devs, msg, pr) ==
    IF devs[msg.id].present
    THEN devs
    ELSE [devs EXCEPT ![msg.id] = Device(msg.conn_id, msg.tx, pr)]

\* faulty variant: every AddDevice builds a new record
AddDeviceMap_NewRecord(devs, msg, pr) ==
    [devs EXCEPT ![msg.id] = Device(msg.conn_id, msg.tx, pr)]

\* the map after AddDevice (198-214)
AddDeviceMap(devs, msg, pr) ==
    IF devs[msg.id].present
    THEN [devs EXCEPT ![msg.id].remote_ip = msg.tx,
                      ![msg.id].conn_id = msg.conn_id,
                      ![msg.id].tx = msg.tx]
    ELSE [devs EXCEPT ![msg.id] = Device(msg.conn_id, msg.tx, pr)]

\* Message::AddDevice (182-221); the reply wakes add_device, which returns
\* into the connection loop
HandleAddDevice(mprisOk) ==
    /\ Receives("AddDevice")
    /\ LET msg == Head(queue) IN
         /\ devices[msg.id].present => mprisOk
         /\ devices' = AddDeviceMap(devices, msg, NewPluginRepository(mprisOk))
         /\ pc' = [pc EXCEPT ![msg.tx] = "loop"]
         /\ lastAdd' = [lastAdd EXCEPT ![msg.id] = msg.conn_id]
    /\ active_device_count' = update_active_device_count(devices')
    /\ tray' = update_tray(devices')
    /\ UNCHANGED <<servers, sent, lru, disk, icon, ops, ret, okput, udp,
                   nsend, tcp, psend, rxn, plog, fetches, rbuf, mpris, audio,
                   deb>>
    /\ UNCHANGED <<NEXT_CONN_ID, actor, dev, conn_id, outbox, cur, wire,
                   tasks, handled, nlines, nevents, removal, hello, exit>>

\* faulty variant: RemoveDevice without the conn_id fence
RemoveDeviceMap_NoFence(devs, msg) == [devs EXCEPT ![msg.id] = NoDevice]

\* the map after RemoveDevice (223-232)
RemoveDeviceMap(devs, msg) ==
    IF devs[msg.id].present /\ devs[msg.id].conn_id = msg.conn_id
    THEN [devs EXCEPT ![msg.id] = NoDevice]
    ELSE devs

\* what the RemoveDevice of a connection met: the record of its own
\* connection, the record of another connection, or no record
RemovalOutcome(devs, msg) ==
    IF ~devs[msg.id].present THEN "absent"
    ELSE IF devs[msg.id].conn_id = msg.conn_id THEN "removed"
    ELSE "stale"

\* PluginRepository::dispose (called at 228): the repository tells its
\* plugins to cancel the sub-tasks they hold and drops its references.  The
\* tasks the actor spawned for Packet and Event messages are detached
\* (274-280, 259-264: no JoinHandle is kept) and hold their own reference
\* to the repository: dispose leaves them as they are.
dispose(bag, pr) == bag

\* Message::RemoveDevice (222-235): the count is stored only when the record
\* was removed
HandleRemoveDevice ==
    /\ Receives("RemoveDevice")
    /\ LET msg == Head(queue) IN
         /\ devices' = RemoveDeviceMap(devices, msg)
         /\ tasks' = IF devices' # devices
                     THEN dispose(tasks, devices[msg.id].plugin_repo)
                     ELSE tasks
         /\ active_device_count' =
              IF devices' # devices
              THEN update_active_device_count(devices')
              ELSE active_device_count
         /\ removal' = [c \in Conns |->
                          IF dev[c] = msg.id /\ conn_id[c] = msg.conn_id
                          THEN RemovalOutcome(devices, msg) ELSE removal[c]]
    /\ tray' = update_tray(devices')
    /\ UNCHANGED <<servers, sent, lru, disk, icon, ops, ret, okput, udp,
                   nsend, tcp, psend, rxn, plog, fetches, rbuf, mpris, audio,
                   deb>>
    /\ UNCHANGED <<NEXT_CONN_ID, actor, pc, dev, conn_id, cur, wire, outbox,
                   handled, nlines, nevents, lastAdd, hello, exit>>

\* device.tx.send(packet).await on the outbox of connection c: Err when the
\* Receiver is gone, done when there is room, pending otherwise
OutboxSend(c, packet) ==
    IF ReceiverDropped(c) THEN outbox' = outbox
    ELSE /\ Len(outbox[c]) < OutboxCap
         /\ outbox' = [outbox EXCEPT ![c] = Append(outbox[c], packet)]

OutboxSendReady(c) == ReceiverDropped(c) \/ Len(outbox[c]) < OutboxCap

\* Message::SendPacket with device_id = Some(..) (239-247)
HandleSendPacket ==
    /\ Receives("SendPacket")
    /\ LET msg == Head(queue) IN
         IF ~devices[msg.device_id].present
         THEN UNCHANGED <<actor, outbox>>
         ELSE IF OutboxSendReady(devices[msg.device_id].tx)
         THEN /\ OutboxSend(devices[msg.device_id].tx, msg.packet)
              /\ actor' = actor
         ELSE /\ actor' = [pc |-> "send", device_id |-> msg.device_id,
                           packet |-> msg.packet]
              /\ outbox' = outbox
    /\ UNCHANGED <<servers, sent, lru, disk, icon, ops, ret, okput, udp,
                   nsend, tcp, psend, rxn, plog, fetches, tray, rbuf, mpris,
                   audio, deb>>
    /\ UNCHANGED <<NEXT_CONN_ID, devices, active_device_count, pc, dev,
                   conn_id, cur, wire, tasks, handled, nlines, nevents,
                   lastAdd, removal, hello, exit>>

\* the pending device.tx.send(packet).await of line 244 completes
SendPacketResume ==
    /\ actor.pc = "send"
    /\ OutboxSend(devices[actor.device_id].tx, actor.packet)
    /\ actor' = Idle
    /\ UNCHANGED <<servers, sent, lru, disk, icon, ops, ret, okput, udp,
                   nsend, tcp, psend, rxn, plog, fetches, tray, rbuf, mpris,
                   audio, deb>>
    /\ UNCHANGED <<NEXT_CONN_ID, queue, devices, active_device_count, pc, dev,
                   conn_id, cur, wire, tasks, handled, nlines, nevents,
                   lastAdd, removal, hello, exit>>

RECURSIVE SpawnAll(_, _)
SpawnAll(bag, ts) ==
    IF ts = {} THEN bag
    ELSE LET t == CHOOSE x \in ts : TRUE IN SpawnAll(Spawn(bag, t), ts \ {t})

\* Message::Event (258-266): one task per device
HandleEvent ==
    /\ Receives("Event")
    /\ tasks' = SpawnAll(tasks, {EventTask(d, devices[d].plugin_repo,
                                           Head(queue).event) : d \in DeviceKeys})
    /\ UNCHANGED <<servers, sent, lru, disk, icon, ops, ret, okput, udp,
                   nsend, tcp, psend, rxn, plog, fetches, tray, rbuf, mpris,
                   audio, deb>>
    /\ UNCHANGED <<NEXT_CONN_ID, devices, active_device_count, actor, pc, dev,
                   conn_id, cur, wire, outbox, handled, nlines, nevents,
                   lastAdd, removal, hello, exit>>

\* Message::Packet (267-281): "Device not found" or one task
HandlePacket ==
    /\ Receives("Packet")
    /\ LET msg == Head(queue) IN
         tasks' = IF devices[msg.device_id].present
                  THEN Spawn(tasks, PacketTask(msg.device_id,
                                               devices[msg.device_id].plugin_repo,
                                               msg.typ))
                  ELSE tasks
    /\ UNCHANGED <<servers, sent, lru, disk, icon, ops, ret, okput, udp,
                   nsend, tcp, psend, rxn, plog, fetches, tray, rbuf, mpris,
                   audio, deb>>
    /\ UNCHANGED <<NEXT_CONN_ID, devices, active_device_count, actor, pc, dev,
                   conn_id, cur, wire, outbox, handled, nlines, nevents,
                   lastAdd, removal, hello, exit>>

(***************************************************************************)
(* The system.                                                             *)
(***************************************************************************)
IO == {"ok", "err", "pending"}

Next ==
    \/ \E c \in Conns, d \in Devices, first \in FirstLines, tls \in BOOLEAN :
          Handshake(c, d, first, tls)
    \/ \E c \in Conns : AddDeviceSend(c)
    \/ \E c \in Conns, io \in IO, flushOk \in BOOLEAN : OutboxRecv(c, io, flushOk)
    \/ \E c \in Conns : OutboxClosed(c)
    \/ \E c \in Conns, how \in {"eof", "error"} : ReadEnd(c, how)
    \/ \E c \in Conns, line \in Lines : ReadLine(c, line)
    \/ \E c \in Conns, flushOk \in BOOLEAN : ParseError(c, flushOk)
    \/ \E c \in Conns, io \in IO, flushOk \in BOOLEAN : PairReply(c, io, flushOk)
    \/ \E c \in Conns, flushOk \in BOOLEAN : dispatch_packet(c, flushOk)
    \/ \E c \in Conns : remove_device(c)
    \/ \E e \in SystemEvents : event_handler(e)
    \/ \E t \in BagToSet(tasks), sends \in BOOLEAN : RunHandlePacket(t, sends)
    \/ \E t \in BagToSet(tasks), sends \in BOOLEAN : RunHandleEvent(t, sends)
    \/ \E t \in BagToSet(tasks) : RunSendMessage(t)
    \/ \E mprisOk \in BOOLEAN : HandleAddDevice(mprisOk)
    \/ HandleRemoveDevice
    \/ HandleSendPacket
    \/ SendPacketResume
    \/ HandleEvent
    \/ HandlePacket

Spec == Init /\ [][Next]_vars

(***************************************************************************)
(* Outbound payload transfer (main.rs:103-197).                            *)
(***************************************************************************)
\* payload servers spawned
MaxServers == 2
\* connections made to one payload server
MaxClients == 2
\* ports of the payload range looked at
MaxPorts == 3
\* packets written by send_packet
MaxSent == 3

\* const MIN_PORT: u16 = 1765 in open_payload_tcp_server
MIN_PORT == 1765
Ports == MIN_PORT..(MIN_PORT + MaxPorts - 1)

\* payload buffers (Arc<Vec<u8>>)
Payloads == {<<7>>, <<7, 9>>}

\* a packet as written: without payload fields, or after
\* set_payload(size, port) (packet.rs:123-126); `server` is the index of the
\* server task spawned by the same send_packet call
PlainPacket == [has_payload |-> FALSE]
StampedPacket(size, port, k) ==
    [has_payload |-> TRUE, payload_size |-> size, port |-> port, server |-> k]

\* the task running serve_payload: it owns the listener and the bytes
PayloadServer(port, data) ==
    [port |-> port, data |-> data, state |-> "accepting", listener |-> TRUE,
     timer |-> "armed", accepted |-> 0, served |-> 0]

\* ports on which a payload listener of this process is bound
Listening(ss) == {ss[k].port : k \in {j \in 1..Len(ss) : ss[j].listener}}

\* faulty variant: the first port of the range is taken without looking
open_payload_tcp_server_NoSkip(busy) == MIN_PORT

\* open_payload_tcp_server: the first port from MIN_PORT upwards on which
\* bind succeeds; `busy` are the ports on which it fails
open_payload_tcp_server(busy) ==
    CHOOSE p \in Ports \ busy : \A q \in Ports \ busy : p <= q

\* send_packet for a packet with a payload (165-196): bind, stamp, spawn
\* serve_payload, then write and flush; a failed write leaves the server
\* running
SendPacketWithPayload(data, foreign, io) ==
    /\ psend.pc = "loop"
    /\ Len(servers) < MaxServers
    /\ Len(sent) < MaxSent
    /\ io \in {"ok", "err"}
    /\ LET busy == foreign \cup Listening(servers) IN
         /\ Ports \ busy # {}
         /\ LET port == open_payload_tcp_server(busy) IN
              /\ servers' = Append(servers, PayloadServer(port, data))
              /\ sent' = IF io = "ok"
                         THEN Append(sent, StampedPacket(Len(data), port,
                                                         Len(servers) + 1))
                         ELSE sent
    /\ UNCHANGED <<NEXT_CONN_ID, queue, devices, active_device_count, actor,
                   pc, dev, conn_id, outbox, cur, wire, tasks, handled,
                   nlines, nevents, lastAdd, removal, hello, exit, udp, nsend,
                   tcp, psend, rxn, plog, fetches, lru, disk, icon, ops, ret,
                   okput, tray, rbuf, mpris, audio, deb>>

\* send_packet for a packet with a payload when bind fails on every port
\* (handles or descriptors exhausted).  `for port in MIN_PORT..` (108) has
\* no upper end, so line 116 and the Err arm of send_packet (181-183) are
\* never reached: after port 65535 the u16 range overflows, which panics in
\* a build with overflow checks and wraps to port 0 in a build without, where
\* the loop then goes round for as long as bind fails.  Either way
\* send_packet does not return and nothing is written.
SendPacketNoListener(data, build) ==
    /\ psend.pc = "loop"
    /\ Len(sent) < MaxSent
    /\ data \in Payloads
    /\ psend' = [pc |-> IF build = "debug" THEN "panicked" ELSE "spinning",
                 nobind |-> psend.nobind + 1]
    /\ UNCHANGED <<NEXT_CONN_ID, queue, devices, active_device_count, actor,
                   pc, dev, conn_id, outbox, cur, wire, tasks, handled,
                   nlines, nevents, lastAdd, removal, hello, exit, udp, nsend,
                   servers, sent, lru, disk, icon, ops, ret, okput, tcp, rxn,
                   plog, fetches, tray, rbuf, mpris, audio, deb>>

\* send_packet for a packet without payload (187-196)
SendPacketPlain ==
    /\ psend.pc = "loop"
    /\ Len(sent) < MaxSent
    /\ sent' = Append(sent, PlainPacket)
    /\ UNCHANGED <<NEXT_CONN_ID, queue, devices, active_device_count, actor,
                   pc, dev, conn_id, outbox, cur, wire, tasks, handled,
                   nlines, nevents, lastAdd, removal, hello, exit, udp, nsend,
                   tcp, psend, rxn, plog, fetches, servers, lru, disk, icon,
                   ops, ret, okput, tray, rbuf, mpris, audio, deb>>

\* serve_payload: server.accept() yields a connection (122-151); the task
\* spawned for it upgrades to TLS, writes the bytes and flushes; the accept
\* loop goes round
PayloadAccept(k, tlsOk, writeOk) ==
    /\ k \in 1..Len(servers)
    /\ servers[k].state = "accepting"
    /\ servers[k].accepted < MaxClients
    /\ (~tlsOk => writeOk)
    /\ servers' = [servers EXCEPT
                     ![k].accepted = @ + 1,
                     ![k].served = IF tlsOk /\ writeOk THEN @ + 1 ELSE @]
    /\ UNCHANGED <<NEXT_CONN_ID, queue, devices, active_device_count, actor,
                   pc, dev, conn_id, outbox, cur, wire, tasks, handled,
                   nlines, nevents, lastAdd, removal, hello, exit, udp, nsend,
                   tcp, psend, rxn, plog, fetches, sent, lru, disk, icon, ops,
                   ret, okput, tray, rbuf, mpris, audio, deb>>

\* serve_payload: server.accept() yields Err, the loop breaks (124-127) and
\* the task, with its listener and its timer, is over
PayloadAcceptError(k) ==
    /\ k \in 1..Len(servers)
    /\ servers[k].state = "accepting"
    /\ servers' = [servers EXCEPT ![k].state = "done", ![k].listener = FALSE,
                                  ![k].timer = "dropped"]
    /\ UNCHANGED <<NEXT_CONN_ID, queue, devices, active_device_count, actor,
                   pc, dev, conn_id, outbox, cur, wire, tasks, handled,
                   nlines, nevents, lastAdd, removal, hello, exit, udp, nsend,
                   tcp, psend, rxn, plog, fetches, sent, lru, disk, icon, ops,
                   ret, okput, tray, rbuf, mpris, audio, deb>>

\* faulty variant: the timer fires but the accept loop is not tied to it
PayloadTimeout_LoopDetached(k) ==
    /\ k \in 1..Len(servers)
    /\ servers[k].timer = "armed"
    /\ servers' = [servers EXCEPT ![k].timer = "fired"]
    /\ UNCHANGED <<NEXT_CONN_ID, queue, devices, active_device_count, actor,
                   pc, dev, conn_id, outbox, cur, wire, tasks, handled,
                   nlines, nevents, lastAdd, removal, hello, exit, udp, nsend,
                   tcp, psend, rxn, plog, fetches, sent, lru, disk, icon, ops,
                   ret, okput, tray, rbuf, mpris, audio, deb>>

\* tokio::time::timeout(Duration::from_secs(60), task) (155-157): the timer
\* fires, the accept loop is dropped and with it the listener it owns
PayloadTimeout(k) ==
    /\ k \in 1..Len(servers)
    /\ servers[k].timer = "armed"
    /\ servers' = [servers EXCEPT ![k].state = "done", ![k].listener = FALSE,
                                  ![k].timer = "fired"]
    /\ UNCHANGED <<NEXT_CONN_ID, queue, devices, active_device_count, actor,
                   pc, dev, conn_id, outbox, cur, wire, tasks, handled,
                   nlines, nevents, lastAdd, removal, hello, exit, udp, nsend,
                   tcp, psend, rxn, plog, fetches, sent, lru, disk, icon, ops,
                   ret, okput, tray, rbuf, mpris, audio, deb>>

SpecPayload ==
    Init /\ [][\/ \E data \in Payloads, foreign \in SUBSET Ports, io \in {"ok", "err"} :
                     SendPacketWithPayload(data, foreign, io)
               \/ \E data \in Payloads, build \in {"debug", "release"} :
                     SendPacketNoListener(data, build)
               \/ SendPacketPlain
               \/ \E k \in 1..MaxServers, tlsOk \in BOOLEAN, writeOk \in BOOLEAN :
                     PayloadAccept(k, tlsOk, writeOk)
               \/ \E k \in 1..MaxServers : PayloadAcceptError(k)
               \/ \E k \in 1..MaxServers : PayloadTimeout(k)]_vars

(***************************************************************************)
(* The payload cache (cache.rs) and the inbound payload path that fills    *)
(* it (notification_receive.rs:96-130, manager.rs:282-315).                *)
(***************************************************************************)
\* calls of get
MaxGets == 1
\* calls of put for a name used before
MaxRePuts == 1
\* calls of tokio::fs::write that fail
MaxWriteErrors == 1
\* notifications with a payload hash shown
MaxShows == 1
\* names that are read, put again, shown or hit by a failed write; the
\* names after them are put once and fill the LRU
MaxHotNames == 2
Hot(n) == n <= MaxHotNames

\* results of the cache calls and of fetch_payload
Some(b) == [tag |-> "Some", data |-> b]
None == [tag |-> "None", data |-> <<>>]
Ok == [tag |-> "Ok", data |-> <<>>]
Err == [tag |-> "Err", data |-> <<>>]
Panic == [tag |-> "Panic", data |-> <<>>]

\* a call on name n and what it returned
Returned(op, n, result) ==
    [op |-> op, name |-> n, result |-> result, size |-> 0, nread |-> 0]

\* lru_cache::LruCache: entries in order of use, least recently used first
Entry(n, b) == [name |-> n, data |-> b]
InLru(q, n) == \E i \in 1..Len(q) : q[i].name = n
LruData(q, n) == q[CHOOSE i \in 1..Len(q) : q[i].name = n].data
LruWithout(q, n) == SelectSeq(q, LAMBDA e : e.name # n)

\* LruCache::get_mut: a hit makes the entry the most recently used
get_mut(q, n) == Append(LruWithout(q, n), Entry(n, LruData(q, n)))

\* faulty variant: nothing is evicted when the cache is over capacity
lru_insert_NoEvict(q, n, b) == Append(LruWithout(q, n), Entry(n, b))

\* LruCache::insert: the entry becomes the most recently used; over
\* capacity, the least recently used entry is removed
lru_insert(q, n, b) ==
    LET a == Append(LruWithout(q, n), Entry(n, b)) IN
      IF Len(a) > LRU_CAPACITY THEN Tail(a) ELSE a

\* get_internal (32-49): the LRU first, then the file, which is put into
\* the LRU when it exists
get_internal(q, dsk, n) ==
    IF InLru(q, n)
    THEN [lru |-> get_mut(q, n), result |-> Some(LruData(q, n))]
    ELSE IF dsk[n] = NoFile
    THEN [lru |-> q, result |-> None]
    ELSE [lru |-> lru_insert(q, n, dsk[n].bytes),
          result |-> Some(dsk[n].bytes)]

\* put (68-82) under the mutex: nothing to do when get_internal finds the
\* name; otherwise insert into the LRU, then write the file.  A failed write
\* returns Err and leaves the LRU entry; `left` is what the failed write
\* left on disk (no file, or an empty file)
put(q, dsk, n, b, writeOk, left) ==
    LET r == get_internal(q, dsk, n) IN
      IF r.result.tag = "Some"
      THEN [lru |-> r.lru, disk |-> dsk, result |-> Ok]
      ELSE [lru |-> lru_insert(q, n, b),
            disk |-> [dsk EXCEPT ![n] = IF writeOk THEN File(b) ELSE left],
            result |-> IF writeOk THEN Ok ELSE Err]

\* get_path (56-66): the file exists
get_path(dsk, n) == dsk[n] # NoFile

\* the number of names used so far, after a call on name n
NamesAfter(n) == IF n > ops.names THEN n ELSE ops.names

\* PAYLOAD_CACHE.get(name)
CacheGet(n) ==
    /\ ops.gets < MaxGets
    /\ n \in 1..ops.names
    /\ Hot(n)
    /\ LET r == get_internal(lru, disk, n) IN
         /\ lru' = r.lru
         /\ ret' = Returned("get", n, r.result)
    /\ ops' = [ops EXCEPT !.gets = @ + 1]
    /\ UNCHANGED <<NEXT_CONN_ID, queue, devices, active_device_count, actor,
                   pc, dev, conn_id, outbox, cur, wire, tasks, handled,
                   nlines, nevents, lastAdd, removal, hello, exit, udp, nsend,
                   tcp, psend, rxn, plog, fetches, servers, sent, disk, icon,
                   okput, tray, rbuf, mpris, audio, deb>>

\* the effect of put(name, data) on the cache variables; names are taken
\* into use in order, and a name is first put with the bytes <<7>>
DoPut(n, b, writeOk, left, op) ==
    /\ n \in Names
    /\ n <= ops.names + 1
    /\ (n = ops.names + 1 /\ op = "put") => b = <<7>>
    /\ (n <= ops.names /\ op = "put") => ops.reputs < MaxRePuts
    /\ (op = "put" /\ ~Hot(n)) => n = ops.names + 1 /\ writeOk
    /\ ~writeOk => ops.werrs < MaxWriteErrors /\ left \in {NoFile, File(<<>>)}
    /\ writeOk => left = NoFile
    /\ get_internal(lru, disk, n).result.tag = "Some" => writeOk
    /\ LET r == put(lru, disk, n, b, writeOk, left) IN
         /\ lru' = r.lru
         /\ disk' = r.disk
         /\ okput' = IF r.result = Ok /\ okput[n] = NoFile
                     THEN [okput EXCEPT ![n] = File(b)] ELSE okput
         /\ ret' = Returned(op, n, IF op = "show" /\ r.result = Ok
                                       /\ ~get_path(r.disk, n)
                                    THEN Panic ELSE r.result)
    /\ ops' = [ops EXCEPT
                 !.names = NamesAfter(n),
                 !.reputs = IF n <= ops.names /\ op = "put" THEN @ + 1 ELSE @,
                 !.werrs = IF writeOk THEN @ ELSE @ + 1]

\* PAYLOAD_CACHE.put(name, data)
CachePut(n, b, writeOk, left) ==
    /\ DoPut(n, b, writeOk, left, "put")
    /\ UNCHANGED <<NEXT_CONN_ID, queue, devices, active_device_count, actor,
                   pc, dev, conn_id, outbox, cur, wire, tasks, handled,
                   nlines, nevents, lastAdd, removal, hello, exit, udp, nsend,
                   tcp, psend, rxn, plog, fetches, servers, sent, icon, tray,
                   rbuf, mpris, audio, deb>>

\* faulty variant: the size of what was read is not compared
fetch_payload_NoSizeCheck(registered, connectOk, received, size) ==
    IF ~registered THEN Err
    ELSE IF ~connectOk THEN Err
    ELSE Some(received)

\* the task of Message::FetchPayload (manager.rs:288-313): Err when the
\* device is not in the map, when the connection fails, or when the number
\* of bytes read until EOF differs from the declared size
fetch_payload(registered, connectOk, received, size) ==
    IF ~registered THEN Err
    ELSE IF ~connectOk THEN Err
    ELSE IF Len(received) = size THEN Some(received)
    ELSE Err

\* show_notification, icon path (96-119), for a notification with a payload
\* hash and payload info: nothing to fetch when the file exists; otherwise
\* fetch_payload(port, size).await?, which returns from show_notification
\* on Err
ShowFetch(n, size, received, registered, connectOk) ==
    /\ icon = NoIcon
    /\ ops.shows < MaxShows
    /\ n \in Names
    /\ n <= ops.names + 1
    /\ Hot(n)
    /\ ops' = [ops EXCEPT !.shows = @ + 1]
    /\ IF get_path(disk, n)
       THEN /\ icon' = NoIcon
            /\ ret' = Returned("show", n, Ok)
       ELSE LET f == fetch_payload(registered, connectOk, received, size) IN
              /\ ret' = [op |-> "fetch", name |-> n, result |-> f,
                         size |-> size, nread |-> Len(received)]
              /\ icon' = IF f.tag = "Some"
                         THEN [pc |-> "put", name |-> n, data |-> f.data]
                         ELSE NoIcon
    /\ UNCHANGED <<NEXT_CONN_ID, queue, devices, active_device_count, actor,
                   pc, dev, conn_id, outbox, cur, wire, tasks, handled,
                   nlines, nevents, lastAdd, removal, hello, exit, udp, nsend,
                   tcp, psend, rxn, plog, fetches, servers, sent, lru, disk,
                   okput, tray, rbuf, mpris, audio, deb>>

\* show_notification, 113-116: PAYLOAD_CACHE.put(&name, data).await?, then
\* get_path(&name).await?.unwrap()
ShowPut(writeOk, left) ==
    /\ icon # NoIcon
    /\ DoPut(icon.name, icon.data, writeOk, left, "show")
    /\ icon' = NoIcon
    /\ UNCHANGED <<NEXT_CONN_ID, queue, devices, active_device_count, actor,
                   pc, dev, conn_id, outbox, cur, wire, tasks, handled,
                   nlines, nevents, lastAdd, removal, hello, exit, udp, nsend,
                   tcp, psend, rxn, plog, fetches, servers, sent, tray, rbuf,
                   mpris, audio, deb>>

SpecCache ==
    Init /\ [][\/ \E n \in Names : CacheGet(n)
               \/ \E n \in Names, b \in Payloads, writeOk \in BOOLEAN,
                     left \in {NoFile, File(<<>>)} : CachePut(n, b, writeOk, left)
               \/ \E n \in Names, size \in 1..2, received \in Payloads \cup {<<>>},
                     registered \in BOOLEAN, connectOk \in BOOLEAN :
                     ShowFetch(n, size, received, registered, connectOk)
               \/ \E writeOk \in BOOLEAN, left \in {NoFile, File(<<>>)} : ShowPut(writeOk, left)]_vars

(***************************************************************************)
(* Discovery broadcast (main.rs:53-84).                                    *)
(***************************************************************************)
\* iterations of the loop of udp_server
MaxTicks == 3

\* faulty variant: the loop advertises whatever the count is
ShouldBroadcast_Always(count) == TRUE

\* 76: ctx.device_manager.active_device_count() == 0
ShouldBroadcast(count) == count = 0

\* one iteration of the loop (75-83): the count is read once; when it is 0
\* the identity packet is serialised and handed to send_to, whose failure
\* ends udp_server through `?`; then the 5 s sleep.  calls counts the
\* send_to calls, sent the datagrams that left, seen is the count read.
UdpTick(sendOk) ==
    /\ udp.pc = "loop"
    /\ udp.ticks < MaxTicks
    /\ IF ShouldBroadcast(active_device_count)
       THEN udp' = [pc |-> IF sendOk THEN "loop" ELSE "ended",
                    ticks |-> udp.ticks + 1,
                    calls |-> udp.calls + 1,
                    sent |-> IF sendOk THEN udp.sent + 1 ELSE udp.sent,
                    seen |-> active_device_count]
       ELSE /\ sendOk
            /\ udp' = [udp EXCEPT !.ticks = @ + 1,
                                  !.seen = active_device_count]
    /\ UNCHANGED <<NEXT_CONN_ID, queue, devices, active_device_count, actor,
                   pc, dev, conn_id, outbox, cur, wire, tasks, handled,
                   nlines, nevents, lastAdd, removal, hello, exit, servers,
                   sent, lru, disk, icon, ops, ret, okput, nsend, tcp, psend,
                   rxn, plog, fetches, tray, rbuf, mpris, audio, deb>>

\* udp_server next to the connections that register and unregister devices
SpecUdp ==
    Init /\ [][\/ \E c \in Conns, d \in Devices, first \in FirstLines, tls \in BOOLEAN :
                     Handshake(c, d, first, tls)
               \/ \E c \in Conns : AddDeviceSend(c)
               \/ \E mprisOk \in BOOLEAN : HandleAddDevice(mprisOk)
               \/ \E c \in Conns, how \in {"eof", "error"} : ReadEnd(c, how)
               \/ \E c \in Conns : remove_device(c)
               \/ HandleRemoveDevice
               \/ \E sendOk \in BOOLEAN : UdpTick(sendOk)]_vars

(***************************************************************************)
(* Outbound packets of one connection (manager.rs:130-138, 239-247;        *)
(* main.rs:256-271).                                                       *)
(***************************************************************************)
\* SendPacket messages sent by the plugins
MaxPackets == 3

\* the k-th packet handed to DeviceManagerHandle::send_packet
Numbered(k) == NetworkPacket("kdeconnect.ping", [seq |-> k])

\* DeviceManagerHandle::send_packet (130-138): one SendPacket message for
\* device d enters the queue
send_packet(d) ==
    /\ nsend < MaxPackets
    /\ nsend' = nsend + 1
    /\ send_message(SendPacketMsg(d, Numbered(nsend + 1)))
    /\ UNCHANGED <<NEXT_CONN_ID, devices, active_device_count, actor, pc, dev,
                   conn_id, cur, wire, outbox, tasks, handled, nlines,
                   nevents, lastAdd, removal, hello, exit>>
    /\ UNCHANGED <<servers, sent, lru, disk, icon, ops, ret, okput, udp, tcp,
                   psend, rxn, plog, fetches, tray, rbuf, mpris, audio, deb>>

\* senders, the actor and the connections that write what they are sent
SpecSend ==
    Init /\ [][\/ \E c \in Conns, d \in Devices, first \in FirstLines, tls \in BOOLEAN :
                     Handshake(c, d, first, tls)
               \/ \E c \in Conns : AddDeviceSend(c)
               \/ \E mprisOk \in BOOLEAN : HandleAddDevice(mprisOk)
               \/ \E d \in Devices : send_packet(d)
               \/ HandleSendPacket
               \/ SendPacketResume
               \/ \E c \in Conns, io \in IO, flushOk \in BOOLEAN : OutboxRecv(c, io, flushOk)
               \/ \E c \in Conns : OutboxClosed(c)
               \/ \E c \in Conns, how \in {"eof", "error"} : ReadEnd(c, how)
               \/ \E c \in Conns : remove_device(c)
               \/ HandleRemoveDevice]_vars

(***************************************************************************)
(* Calls into the plugins, one by one (manager.rs:258-281;                 *)
(* plugin/mod.rs:147-168).  The packets carry the number of their line on  *)
(* the wire, and plog lists the calls of KdeConnectPlugin::handle in the   *)
(* order in which they are made.                                           *)
(***************************************************************************)
\* packets read from the connections
MaxInbound == 2
\* plugin calls that fail or do not return
MaxFaults == 1

\* the read branch for a line that parses to a packet of a type other than
\* pair (main.rs:273-300, 309-312): dispatch_packet(packet).await puts
\* Message::Packet into the queue; `conn` notes which connection read it
InboundPacket(c, typ, flushOk) ==
    /\ pc[c] = "loop"
    /\ rxn < MaxInbound
    /\ rxn' = rxn + 1
    /\ send_message([type |-> "Packet", device_id |-> dev[c], typ |-> typ,
                     n |-> rxn + 1, conn |-> c])
    /\ pc' = [pc EXCEPT ![c] = AfterFlush(flushOk)]
    /\ ExitAfterFlush(c, flushOk)
    /\ UNCHANGED <<NEXT_CONN_ID, devices, active_device_count, actor, dev,
                   conn_id, outbox, cur, wire, tasks, handled, nlines,
                   nevents, lastAdd, removal, hello>>
    /\ UNCHANGED <<servers, sent, lru, disk, icon, ops, ret, okput, udp,
                   nsend, tcp, psend, plog, fetches, tray, rbuf, mpris, audio,
                   deb>>

\* faulty variant: only the connection the record belongs to is served
devices_get_OwnConnection(devs, msg) ==
    devs[msg.device_id].present /\ devs[msg.device_id].tx = msg.conn

\* 268: self.devices.get(&device_id), the message carrying no connection
devices_get(devs, msg) == devs[msg.device_id].present

\* Message::Packet (267-281): "Device not found", or a task that holds the
\* plugin repository and the packet.  A repository is made when a record is
\* inserted and goes with the record, so t.repo tells it by the name the
\* record was inserted with.
HandlePacketNumbered ==
    /\ Receives("Packet")
    /\ LET msg == Head(queue) IN
         tasks' = IF devices_get(devices, msg)
                  THEN Spawn(tasks, [kind |-> "handle_packet_n",
                                     dev |-> msg.device_id,
                                     pr |-> devices[msg.device_id].plugin_repo,
                                     repo |-> devices[msg.device_id].name,
                                     at |-> devices[msg.device_id].conn_id,
                                     typ |-> msg.typ, n |-> msg.n,
                                     conn |-> msg.conn])
                  ELSE tasks
    /\ UNCHANGED <<servers, sent, lru, disk, icon, ops, ret, okput, udp,
                   nsend, tcp, psend, rxn, plog, fetches, tray, rbuf, mpris,
                   audio, deb>>
    /\ UNCHANGED <<NEXT_CONN_ID, devices, active_device_count, actor, pc, dev,
                   conn_id, cur, wire, outbox, handled, nlines, nevents,
                   lastAdd, removal, hello, exit>>

\* plugin calls so far that failed or did not return
Faults ==
    Cardinality({i \in 1..Len(plog) : plog[i].result # "ok"})
      + Cardinality({t \in BagToSet(tasks) :
                        t.kind = "handle_event_at" /\ t.hung})

\* faulty variant: a task whose plugin failed stays and calls it again
handle_packet_task_Retry(bag, t, result) ==
    IF result = "err" THEN bag ELSE Finish(bag, t)

\* the spawned closure (276-280): whatever handle_packet returns, the error
\* is logged and the task is over
handle_packet_task(bag, t, result) == Finish(bag, t)

\* the task runs pr.handle_packet(packet) (mod.rs:147-160): the first plugin
\* whose set holds the type is called and returns `result`
CallHandle(t, result) ==
    /\ t \in BagToSet(tasks)
    /\ t.kind = "handle_packet_n"
    /\ result \in {"ok", "err"}
    /\ result = "err" => Faults < MaxFaults
    /\ LET i == handle_packet(t.pr, t.typ) IN
         plog' = Append(plog, [dev |-> t.dev, conn |-> t.conn, n |-> t.n, typ |-> t.typ,
                               plugin |-> IF i = 0 THEN "" ELSE t.pr[i].name,
                               result |-> result])
    /\ tasks' = handle_packet_task(tasks, t, result)
    /\ UNCHANGED <<NEXT_CONN_ID, queue, devices, active_device_count, actor,
                   pc, dev, conn_id, cur, wire, outbox, handled, nlines,
                   nevents, lastAdd, removal, hello, exit>>
    /\ UNCHANGED <<servers, sent, lru, disk, icon, ops, ret, okput, udp,
                   nsend, tcp, psend, rxn, fetches, tray, rbuf, mpris, audio,
                   deb>>

\* the task spawned for Message::Event (262-264) inside
\* PluginRepository::handle_event (mod.rs:162-168): the call of the next
\* plugin in registration order is made and awaited; `result` is what
\* becomes of it, "pending" when it does not return, an error being logged
\* (164-166).  t.at is the plugin the loop is at (a task just spawned is at
\* the first): the plugins before it have been given the event.
HandleEventStep(t, result, sends) ==
    /\ t \in BagToSet(tasks)
    /\ t.kind \in {"handle_event", "handle_event_at"}
    /\ t.kind = "handle_event_at" => ~t.hung
    /\ result \in {"ok", "err", "pending"}
    /\ result # "ok" => Faults < MaxFaults
    /\ LET at == IF t.kind = "handle_event" THEN 1 ELSE t.at
           rest == IF sends
                   THEN Spawn(Finish(tasks, t),
                              SendTask(SendPacketMsg(t.dev, BatteryReport)))
                   ELSE Finish(tasks, t)
           next == [kind |-> "handle_event_at", dev |-> t.dev, pr |-> t.pr,
                    event |-> t.event,
                    at |-> IF result = "pending" THEN at ELSE at + 1,
                    hung |-> result = "pending"]
       IN /\ sends \in PluginEventSends(t.pr[at].name, t.event)
          /\ tasks' = IF result # "pending" /\ at = Len(t.pr)
                      THEN rest ELSE Spawn(rest, next)
    /\ UNCHANGED <<NEXT_CONN_ID, queue, devices, active_device_count, actor,
                   pc, dev, conn_id, cur, wire, outbox, handled, nlines,
                   nevents, lastAdd, removal, hello, exit>>
    /\ UNCHANGED <<servers, sent, lru, disk, icon, ops, ret, okput, udp,
                   nsend, tcp, psend, rxn, plog, fetches, tray, rbuf, mpris,
                   audio, deb>>

\* connections, the actor and the tasks it spawns for inbound packets
SpecInbound ==
    Init /\ [][\/ \E c \in Conns, d \in Devices, first \in FirstLines, tls \in BOOLEAN :
                     Handshake(c, d, first, tls)
               \/ \E c \in Conns : AddDeviceSend(c)
               \/ \E mprisOk \in BOOLEAN : HandleAddDevice(mprisOk)
               \/ \E c \in Conns, typ \in {"kdeconnect.ping", "kdeconnect.clipboard"},
                     flushOk \in BOOLEAN : InboundPacket(c, typ, flushOk)
               \/ HandlePacketNumbered
               \/ \E t \in BagToSet(tasks), result \in {"ok", "err"} : CallHandle(t, result)
               \/ \E c \in Conns, how \in {"eof", "error"} : ReadEnd(c, how)
               \/ \E c \in Conns : remove_device(c)
               \/ HandleRemoveDevice]_vars

\* connections, the actor and the tasks it spawns for events
SpecEvents ==
    Init /\ [][\/ \E c \in Conns, d \in Devices, first \in FirstLines, tls \in BOOLEAN :
                     Handshake(c, d, first, tls)
               \/ \E c \in Conns : AddDeviceSend(c)
               \/ \E mprisOk \in BOOLEAN : HandleAddDevice(mprisOk)
               \/ \E e \in SystemEvents : event_handler(e)
               \/ HandleEvent
               \/ \E t \in BagToSet(tasks), result \in {"ok", "err", "pending"},
                     sends \in BOOLEAN : HandleEventStep(t, result, sends)
               \/ \E t \in BagToSet(tasks) : RunSendMessage(t)
               \/ HandleSendPacket
               \/ \E c \in Conns, io \in IO, flushOk \in BOOLEAN : OutboxRecv(c, io, flushOk)]_vars

(***************************************************************************)
(* Message::FetchPayload (handle.rs:50-63, manager.rs:282-315).            *)
(***************************************************************************)
\* calls of DeviceHandle::fetch_payload
MaxFetches == 2

\* DeviceHandle::fetch_payload (handle.rs:50-60): a oneshot channel is made
\* and FetchPayload enters the queue.  The entry of fetches is the request
\* with the replies its channel was sent, the connections opened for it and
\* what the actor knew when it handled the message.
FetchPayloadSend(d, size) ==
    /\ Len(fetches) < MaxFetches
    /\ send_message([type |-> "FetchPayload", device_id |-> d, size |-> size,
                     reply |-> Len(fetches) + 1])
    /\ fetches' = Append(fetches, [dev |-> d, state |-> "queued",
                                   found |-> FALSE, replies |-> <<>>,
                                   opened |-> 0, then |-> lastAdd])
    /\ UNCHANGED <<NEXT_CONN_ID, devices, active_device_count, actor, pc, dev,
                   conn_id, cur, wire, outbox, tasks, handled, nlines,
                   nevents, lastAdd, removal, hello, exit>>
    /\ UNCHANGED <<servers, sent, lru, disk, icon, ops, ret, okput, udp,
                   nsend, tcp, psend, rxn, plog, tray, rbuf, mpris, audio,
                   deb>>

\* faulty variant: the arm does not return after the error reply
spawn_fetch_NoReturn(bag, found, t) == Spawn(bag, t)

\* 288-297: the task is spawned only for a device that is in the map
spawn_fetch(bag, found, t) == IF found THEN Spawn(bag, t) ELSE bag

\* Message::FetchPayload (282-315): "Device not found" is sent as the
\* reply, or the task is spawned; handle_message returns in both cases
HandleFetchPayload ==
    /\ Receives("FetchPayload")
    /\ LET msg == Head(queue)
           found == devices[msg.device_id].present
       IN /\ tasks' = spawn_fetch(tasks, found,
                                  [kind |-> "fetch", reply |-> msg.reply,
                                   size |-> msg.size])
          /\ fetches' = [fetches EXCEPT
                           ![msg.reply].found = found,
                           ![msg.reply].then = lastAdd,
                           ![msg.reply].state =
                               IF found THEN "running" ELSE "done",
                           ![msg.reply].replies =
                               IF found THEN @
                               ELSE Append(@, fetch_payload(FALSE, FALSE,
                                                            <<>>, msg.size))]
    /\ UNCHANGED <<NEXT_CONN_ID, devices, active_device_count, actor, pc, dev,
                   conn_id, cur, wire, outbox, handled, nlines, nevents,
                   lastAdd, removal, hello, exit>>
    /\ UNCHANGED <<servers, sent, lru, disk, icon, ops, ret, okput, udp,
                   nsend, tcp, psend, rxn, plog, tray, rbuf, mpris, audio,
                   deb>>

\* the spawned task (297-314): connect and TLS, read until EOF, compare the
\* size, reply.send(task.await)
RunFetch(t, connectOk, received) ==
    /\ t \in BagToSet(tasks)
    /\ t.kind = "fetch"
    /\ ~connectOk => received = <<>>
    /\ tasks' = Finish(tasks, t)
    /\ fetches' = [fetches EXCEPT
                     ![t.reply].state = "done",
                     ![t.reply].opened = @ + 1,
                     ![t.reply].replies =
                         Append(@, fetch_payload(TRUE, connectOk, received,
                                                 t.size))]
    /\ UNCHANGED <<NEXT_CONN_ID, queue, devices, active_device_count, actor,
                   pc, dev, conn_id, cur, wire, outbox, handled, nlines,
                   nevents, lastAdd, removal, hello, exit>>
    /\ UNCHANGED <<servers, sent, lru, disk, icon, ops, ret, okput, udp,
                   nsend, tcp, psend, rxn, plog, tray, rbuf, mpris, audio,
                   deb>>

\* connections, senders and fetches around the actor
SpecFetch ==
    Init /\ [][\/ \E c \in Conns, d \in Devices, first \in FirstLines,
                    tls \in BOOLEAN : Handshake(c, d, first, tls)
               \/ \E c \in Conns : AddDeviceSend(c)
               \/ \E mprisOk \in BOOLEAN : HandleAddDevice(mprisOk)
               \/ \E c \in Conns, how \in {"eof", "error"} : ReadEnd(c, how)
               \/ \E c \in Conns : remove_device(c)
               \/ HandleRemoveDevice
               \/ \E d \in Devices : send_packet(d)
               \/ HandleSendPacket
               \/ \E d \in Devices : FetchPayloadSend(d, 1)
               \/ HandleFetchPayload
               \/ \E t \in BagToSet(tasks), connectOk \in BOOLEAN,
                     received \in {<<>>} \cup Payloads :
                     RunFetch(t, connectOk, received)]_vars

(***************************************************************************)
(* Message::SendPacket with device_id = None (manager.rs:248-256).         *)
(***************************************************************************)
\* a SendPacket message without a device id (device/mod.rs:37-40) enters the
\* queue
SendPacketNone ==
    /\ nsend < MaxPackets
    /\ nsend' = nsend + 1
    /\ send_message([type |-> "SendPacket(None)",
                     packet |-> Numbered(nsend + 1)])
    /\ UNCHANGED <<NEXT_CONN_ID, devices, active_device_count, actor, pc, dev,
                   conn_id, cur, wire, outbox, tasks, handled, nlines,
                   nevents, lastAdd, removal, hello, exit>>
    /\ UNCHANGED <<servers, sent, lru, disk, icon, ops, ret, okput, udp, tcp,
                   psend, rxn, plog, fetches, tray, rbuf, mpris, audio, deb>>

\* 250: `for device in self.devices.values()`, in the order of the HashMap.
\* The actor keeps the devices it has still to visit and, for those it has
\* visited, whether tx.send returned Ok.
HandleBroadcast(order) ==
    /\ Receives("SendPacket(None)")
    /\ order \in [1..Cardinality(DeviceKeys) -> DeviceKeys]
    /\ {order[i] : i \in DOMAIN order} = DeviceKeys
    /\ actor' = [pc |-> "bcast", packet |-> Head(queue).packet,
                 targets |-> DeviceKeys, left |-> order, log |-> <<>>]
    /\ UNCHANGED <<servers, sent, lru, disk, icon, ops, ret, okput, udp,
                   nsend, tcp, psend, rxn, plog, fetches, tray, rbuf, mpris,
                   audio, deb>>
    /\ UNCHANGED <<NEXT_CONN_ID, devices, active_device_count, pc, dev,
                   conn_id, cur, wire, outbox, tasks, handled, nlines,
                   nevents, lastAdd, removal, hello, exit>>

\* faulty variant: the first failed send ends the loop
broadcast_left_StopOnError(left, sendOk) == IF sendOk THEN Tail(left) ELSE <<>>

\* 251-253: an Err of tx.send is logged and the loop goes on
broadcast_left(left, sendOk) == Tail(left)

\* 251: device.tx.send(packet.clone()).await for the next device
BroadcastStep ==
    /\ actor.pc = "bcast"
    /\ actor.left # <<>>
    /\ LET d == Head(actor.left)
           c == devices[d].tx
           sendOk == ~ReceiverDropped(c)
       IN /\ OutboxSend(c, actor.packet)
          /\ actor' = [actor EXCEPT
                         !.left = broadcast_left(@, sendOk),
                         !.log = Append(@, [dev |-> d, ok |-> sendOk])]
    /\ UNCHANGED <<servers, sent, lru, disk, icon, ops, ret, okput, udp,
                   nsend, tcp, psend, rxn, plog, fetches, tray, rbuf, mpris,
                   audio, deb>>
    /\ UNCHANGED <<NEXT_CONN_ID, queue, devices, active_device_count, pc, dev,
                   conn_id, cur, wire, tasks, handled, nlines, nevents,
                   lastAdd, removal, hello, exit>>

\* 255-256: the loop is over and handle_message returns
BroadcastReturn ==
    /\ actor.pc = "bcast"
    /\ actor.left = <<>>
    /\ actor' = Idle
    /\ UNCHANGED <<servers, sent, lru, disk, icon, ops, ret, okput, udp,
                   nsend, tcp, psend, rxn, plog, fetches, tray, rbuf, mpris,
                   audio, deb>>
    /\ UNCHANGED <<NEXT_CONN_ID, queue, devices, active_device_count, pc, dev,
                   conn_id, cur, wire, outbox, tasks, handled, nlines,
                   nevents, lastAdd, removal, hello, exit>>

\* broadcasts, the actor and the connections that write what they are sent
SpecBroadcast ==
    Init /\ [][\/ \E c \in Conns, d \in Devices, first \in FirstLines,
                    tls \in BOOLEAN : Handshake(c, d, first, tls)
               \/ \E c \in Conns : AddDeviceSend(c)
               \/ \E mprisOk \in BOOLEAN : HandleAddDevice(mprisOk)
               \/ SendPacketNone
               \/ \E order \in UNION {[1..n -> Devices] : n \in 0..2} :
                     HandleBroadcast(order)
               \/ BroadcastStep
               \/ BroadcastReturn
               \/ \E c \in Conns, io \in IO, flushOk \in BOOLEAN :
                     OutboxRecv(c, io, flushOk)
               \/ \E c \in Conns : OutboxClosed(c)
               \/ \E c \in Conns, how \in {"eof", "error"} : ReadEnd(c, how)
               \/ \E c \in Conns : remove_device(c)
               \/ HandleRemoveDevice]_vars

(***************************************************************************)
(* Message::UpdateTray (manager.rs:126-128, 316-329).                      *)
(***************************************************************************)
\* DeviceManagerHandle::update_tray (126-128), called by plugins
UpdateTraySend ==
    /\ send_message([type |-> "UpdateTray"])
    /\ UNCHANGED <<servers, sent, lru, disk, icon, ops, ret, okput, udp,
                   nsend, tcp, psend, rxn, plog, fetches, tray, rbuf, mpris,
                   audio, deb>>
    /\ UNCHANGED <<NEXT_CONN_ID, devices, active_device_count, actor, pc, dev,
                   conn_id, cur, wire, outbox, tasks, handled, nlines,
                   nevents, lastAdd, removal, hello, exit>>

\* Message::UpdateTray (316-318) and the update_tray that ends
\* handle_message (322-324).  update_tray awaits create_tray_menu of every
\* record (344), which awaits players.read() in MprisRemotePlugin::tray_menu
\* (remote.rs:139): while the plugin of a record holds the write lock the
\* actor waits there, the message already taken from the queue.
HandleUpdateTray ==
    /\ Receives("UpdateTray")
    /\ IF mpris.pc = "locked" /\ devices[mpris.dev].present
       THEN actor' = [pc |-> "tray_menu"] /\ tray' = tray
       ELSE actor' = actor /\ tray' = update_tray(devices)
    /\ UNCHANGED <<servers, sent, lru, disk, icon, ops, ret, okput, udp,
                   nsend, tcp, psend, rxn, plog, fetches, rbuf, mpris, audio,
                   deb>>
    /\ UNCHANGED <<NEXT_CONN_ID, devices, active_device_count, pc, dev,
                   conn_id, cur, wire, outbox, tasks, handled, nlines,
                   nevents, lastAdd, removal, hello, exit>>

(***************************************************************************)
(* MprisRemotePlugin (plugin/mpris/remote.rs:104-182).                     *)
(***************************************************************************)
\* handle, Metadata arm (125-126): players.write().await is granted
MprisHandle(d) ==
    /\ mpris.pc = "idle"
    /\ devices[d].present
    /\ mpris' = [pc |-> "locked", dev |-> d]
    /\ UNCHANGED <<servers, sent, lru, disk, icon, ops, ret, okput, udp,
                   nsend, tcp, psend, rxn, plog, fetches, tray, rbuf, audio,
                   deb>>
    /\ UNCHANGED <<NEXT_CONN_ID, queue, devices, active_device_count, actor,
                   pc, dev, conn_id, outbox, cur, wire, tasks, handled,
                   nlines, nevents, lastAdd, removal, hello, exit>>

\* 127-130: self.ctx.update_tray().await with the write guard alive; the
\* guard is dropped when the send has completed
MprisUpdateTray ==
    /\ mpris.pc = "locked"
    /\ send_message([type |-> "UpdateTray"])
    /\ mpris' = [mpris EXCEPT !.pc = "idle"]
    /\ UNCHANGED <<servers, sent, lru, disk, icon, ops, ret, okput, udp,
                   nsend, tcp, psend, rxn, plog, fetches, tray, rbuf, audio,
                   deb>>
    /\ UNCHANGED <<NEXT_CONN_ID, devices, active_device_count, actor, pc, dev,
                   conn_id, cur, wire, outbox, tasks, handled, nlines,
                   nevents, lastAdd, removal, hello, exit>>

\* tray_menu (139): players.read().await is granted, update_tray goes on to
\* its end (346-364) and handle_message returns
TrayMenuResume ==
    /\ actor.pc = "tray_menu"
    /\ mpris.pc = "idle"
    /\ actor' = Idle
    /\ tray' = update_tray(devices)
    /\ UNCHANGED <<servers, sent, lru, disk, icon, ops, ret, okput, udp,
                   nsend, tcp, psend, rxn, plog, fetches, rbuf, mpris, audio,
                   deb>>
    /\ UNCHANGED <<NEXT_CONN_ID, queue, devices, active_device_count, pc, dev,
                   conn_id, cur, wire, outbox, tasks, handled, nlines,
                   nevents, lastAdd, removal, hello, exit>>

\* one device, its MPRIS remote plugin, other senders of UpdateTray and the
\* actor
SpecLock ==
    Init /\ [][\/ \E d \in Devices, first \in FirstLines, tls \in BOOLEAN :
                     Handshake(1, d, first, tls)
               \/ AddDeviceSend(1)
               \/ \E mprisOk \in BOOLEAN : HandleAddDevice(mprisOk)
               \/ UpdateTraySend
               \/ HandleUpdateTray
               \/ \E d \in Devices : MprisHandle(d)
               \/ MprisUpdateTray
               \/ TrayMenuResume
               \/ \E d \in Devices : send_packet(d)
               \/ HandleSendPacket
               \/ OutboxRecv(1, "ok", TRUE)]_vars

\* connections that come and go, tray requests and the actor
SpecTray ==
    Init /\ [][\/ \E c \in Conns, d \in Devices, first \in FirstLines,
                    tls \in BOOLEAN : Handshake(c, d, first, tls)
               \/ \E c \in Conns : AddDeviceSend(c)
               \/ \E mprisOk \in BOOLEAN : HandleAddDevice(mprisOk)
               \/ \E c \in Conns, how \in {"eof", "error"} : ReadEnd(c, how)
               \/ \E c \in Conns : remove_device(c)
               \/ HandleRemoveDevice
               \/ UpdateTraySend
               \/ HandleUpdateTray]_vars

(***************************************************************************)
(* read_line inside select! (main.rs:256-274).                             *)
(***************************************************************************)
\* read_line is polled, takes the first bytes of the line the peer is
\* sending and returns Pending: the newline has not arrived yet
ReadPartial(c, line) ==
    /\ pc[c] = "loop"
    /\ rbuf[c].state = "none"
    /\ nlines < MaxLines
    /\ nlines' = nlines + 1
    /\ rbuf' = [rbuf EXCEPT ![c] = [state |-> "partial", line |-> line]]
    /\ UNCHANGED <<servers, sent, lru, disk, icon, ops, ret, okput, udp,
                   nsend, tcp, psend, rxn, plog, fetches, tray, mpris, audio,
                   deb>>
    /\ UNCHANGED <<NEXT_CONN_ID, queue, devices, active_device_count, actor,
                   pc, dev, conn_id, cur, wire, outbox, tasks, handled,
                   nevents, lastAdd, removal, hello, exit>>

\* read_line yields Ok(n > 0) at the newline (273-287): `line` holds what
\* this read_line took from the stream, which is the whole line when the
\* same future read its first bytes, and the rest of the line, which is not
\* a JSON document, when an earlier future was dropped with the first bytes
ReadComplete(c) ==
    /\ pc[c] = "loop"
    /\ rbuf[c].state \in {"partial", "tail"}
    /\ cur' = [cur EXCEPT ![c] = IF rbuf[c].state = "partial"
                                 THEN rbuf[c].line ELSE Garbage]
    /\ pc' = [pc EXCEPT ![c] = "line"]
    /\ rbuf' = [rbuf EXCEPT ![c] = [state |-> "none", line |-> ""]]
    /\ UNCHANGED <<servers, sent, lru, disk, icon, ops, ret, okput, udp,
                   nsend, tcp, psend, rxn, plog, fetches, tray, mpris, audio,
                   deb>>
    /\ UNCHANGED <<NEXT_CONN_ID, queue, devices, active_device_count, actor,
                   dev, conn_id, outbox, wire, tasks, handled, nlines,
                   nevents, lastAdd, removal, hello, exit>>

\* a connection loop that reads lines in pieces while packets are sent to it
SpecRead ==
    Init /\ [][\/ \E c \in Conns, d \in Devices, first \in FirstLines,
                    tls \in BOOLEAN : Handshake(c, d, first, tls)
               \/ \E c \in Conns : AddDeviceSend(c)
               \/ \E mprisOk \in BOOLEAN : HandleAddDevice(mprisOk)
               \/ \E d \in Devices : send_packet(d)
               \/ HandleSendPacket
               \/ SendPacketResume
               \/ \E c \in Conns, io \in IO, flushOk \in BOOLEAN :
                     OutboxRecv(c, io, flushOk)
               \/ \E c \in Conns, line \in {"kdeconnect.ping"} : ReadPartial(c, line)
               \/ \E c \in Conns : ReadComplete(c)
               \/ \E c \in Conns, flushOk \in BOOLEAN : ParseError(c, flushOk)
               \/ \E c \in Conns, flushOk \in BOOLEAN :
                     dispatch_packet(c, flushOk)
               \/ HandlePacket]_vars

(***************************************************************************)
(* The audio manager (windows-audio-manager/src/lib.rs) and the task of    *)
(* SystemVolumePlugin::start (plugin/system_volume.rs:110-138).            *)
(***************************************************************************)
\* audio events delivered by the callbacks
MaxAudioEvents == 3

\* mpsc::channel(1): event_tx (lib.rs:409), command_tx (195) and the
\* channel of a subscriber (494)
AudioChannelCap == 1

\* the callbacks (46, 51, 139): blocking_send into the event channel
AudioCallback(e) ==
    /\ audio.nev < MaxAudioEvents
    /\ Len(audio.events) < AudioChannelCap
    /\ audio' = [audio EXCEPT !.events = Append(@, e), !.nev = @ + 1]
    /\ UNCHANGED <<NEXT_CONN_ID, queue, devices, active_device_count, actor,
                   pc, dev, conn_id, outbox, cur, wire, tasks, handled,
                   nlines, nevents, lastAdd, removal, hello, exit, servers,
                   sent, lru, disk, icon, ops, ret, okput, udp, nsend, tcp,
                   psend, rxn, plog, fetches, tray, rbuf, mpris, deb>>

\* manager_main, event branch (414-421), handle_event (381-405) and
\* emit_notification (326-339): tx.send(notify).await for the subscriber
\* completes when its channel has room; otherwise the actor waits in it
AudioHandleEvent ==
    /\ audio.pc = "select"
    /\ audio.events # <<>>
    /\ LET notify == IF Head(audio.events) = "VolumeUpdated"
                     THEN "VolumeUpdated" ELSE "SinkListUpdated"
       IN audio' =
            IF audio.subscribers = 0
            THEN [audio EXCEPT !.events = Tail(@)]
            ELSE IF Len(audio.notify) < AudioChannelCap
            THEN [audio EXCEPT !.events = Tail(@),
                               !.notify = Append(@, notify)]
            ELSE [audio EXCEPT !.events = Tail(@), !.pc = "emit",
                               !.pending = notify]
    /\ UNCHANGED <<NEXT_CONN_ID, queue, devices, active_device_count, actor,
                   pc, dev, conn_id, outbox, cur, wire, tasks, handled,
                   nlines, nevents, lastAdd, removal, hello, exit, servers,
                   sent, lru, disk, icon, ops, ret, okput, udp, nsend, tcp,
                   psend, rxn, plog, fetches, tray, rbuf, mpris, deb>>

\* emit_notification (330): the send that was waiting completes
AudioEmitResume ==
    /\ audio.pc = "emit"
    /\ Len(audio.notify) < AudioChannelCap
    /\ audio' = [audio EXCEPT !.notify = Append(@, audio.pending),
                              !.pending = "", !.pc = "select"]
    /\ UNCHANGED <<NEXT_CONN_ID, queue, devices, active_device_count, actor,
                   pc, dev, conn_id, outbox, cur, wire, tasks, handled,
                   nlines, nevents, lastAdd, removal, hello, exit, servers,
                   sent, lru, disk, icon, ops, ret, okput, udp, nsend, tcp,
                   psend, rxn, plog, fetches, tray, rbuf, mpris, deb>>

\* manager_main, command branch (426-433) and handle_command (340-348)
AudioHandleCommand ==
    /\ audio.pc = "select"
    /\ audio.commands # <<>>
    /\ audio' = IF Head(audio.commands) = "SubscribeNotification"
                THEN [audio EXCEPT !.commands = Tail(@), !.subscribers = 1]
                ELSE [audio EXCEPT !.commands = Tail(@), !.reply = TRUE]
    /\ UNCHANGED <<NEXT_CONN_ID, queue, devices, active_device_count, actor,
                   pc, dev, conn_id, outbox, cur, wire, tasks, handled,
                   nlines, nevents, lastAdd, removal, hello, exit, servers,
                   sent, lru, disk, icon, ops, ret, okput, udp, nsend, tcp,
                   psend, rxn, plog, fetches, tray, rbuf, mpris, deb>>

\* SystemVolumePlugin::start (112): subscribe_notification (493-501) sends
\* the command and returns the Receiver
SubscribeNotification ==
    /\ audio.sub = "start"
    /\ Len(audio.commands) < AudioChannelCap
    /\ audio' = [audio EXCEPT !.commands = Append(@, "SubscribeNotification"),
                              !.sub = "recv"]
    /\ UNCHANGED <<NEXT_CONN_ID, queue, devices, active_device_count, actor,
                   pc, dev, conn_id, outbox, cur, wire, tasks, handled,
                   nlines, nevents, lastAdd, removal, hello, exit, servers,
                   sent, lru, disk, icon, ops, ret, okput, udp, nsend, tcp,
                   psend, rxn, plog, fetches, tray, rbuf, mpris, deb>>

\* the task of start (114-131): notify_rx.recv() yields a notification.
\* For SinkListUpdated, send_sink_list calls get_audio_sink_info (483-491),
\* which sends RequestAudioSinkInfo and awaits the reply; the task is the
\* only sender of commands here and has none outstanding, so the command
\* channel has room.
NotifyRecv ==
    /\ audio.sub = "recv"
    /\ audio.notify # <<>>
    /\ Len(audio.commands) < AudioChannelCap
    /\ audio' =
         IF Head(audio.notify) = "SinkListUpdated"
         THEN [audio EXCEPT !.notify = Tail(@), !.sub = "await",
                            !.commands = Append(@, "RequestAudioSinkInfo")]
         ELSE [audio EXCEPT !.notify = Tail(@)]
    /\ UNCHANGED <<NEXT_CONN_ID, queue, devices, active_device_count, actor,
                   pc, dev, conn_id, outbox, cur, wire, tasks, handled,
                   nlines, nevents, lastAdd, removal, hello, exit, servers,
                   sent, lru, disk, icon, ops, ret, okput, udp, nsend, tcp,
                   psend, rxn, plog, fetches, tray, rbuf, mpris, deb>>

\* get_audio_sink_info (490): reply_rx.await yields the sink list
SinkInfoReply ==
    /\ audio.sub = "await"
    /\ audio.reply
    /\ audio' = [audio EXCEPT !.reply = FALSE, !.sub = "recv"]
    /\ UNCHANGED <<NEXT_CONN_ID, queue, devices, active_device_count, actor,
                   pc, dev, conn_id, outbox, cur, wire, tasks, handled,
                   nlines, nevents, lastAdd, removal, hello, exit, servers,
                   sent, lru, disk, icon, ops, ret, okput, udp, nsend, tcp,
                   psend, rxn, plog, fetches, tray, rbuf, mpris, deb>>

\* the audio manager, the callbacks and one subscriber
SpecAudio ==
    Init /\ [][\/ \E e \in {"SendSinkList", "VolumeUpdated"} : AudioCallback(e)
               \/ AudioHandleEvent
               \/ AudioEmitResume
               \/ AudioHandleCommand
               \/ SubscribeNotification
               \/ NotifyRecv
               \/ SinkInfoReply]_vars

(***************************************************************************)
(* Debouncer (utils/debounce.rs).  last_arg is an Option, written as a     *)
(* sequence of length 0 or 1; out is the sequence of callback invocations; *)
(* calls is the sequence of values passed to call, became the sequence of  *)
(* values that were stored in last_arg.                                    *)
(***************************************************************************)
\* values passed to call
MaxCalls == 4

\* mpsc::channel(1) (debounce.rs:15)
DebounceChannelCap == 1

\* call (51-53): tx.send(arg).await completes when the channel has room
DebouncerCall(arg) ==
    /\ deb.open
    /\ Len(deb.calls) < MaxCalls
    /\ Len(deb.chan) < DebounceChannelCap
    /\ deb' = [deb EXCEPT !.chan = Append(@, arg), !.calls = Append(@, arg)]
    /\ UNCHANGED <<NEXT_CONN_ID, queue, devices, active_device_count, actor,
                   pc, dev, conn_id, outbox, cur, wire, tasks, handled,
                   nlines, nevents, lastAdd, removal, hello, exit, servers,
                   sent, lru, disk, icon, ops, ret, okput, udp, nsend, tcp,
                   psend, rxn, plog, fetches, tray, rbuf, mpris, audio>>

\* the Debouncer is dropped: its Sender, the only one, goes away
DebouncerDrop ==
    /\ deb.open
    /\ deb' = [deb EXCEPT !.open = FALSE]
    /\ UNCHANGED <<NEXT_CONN_ID, queue, devices, active_device_count, actor,
                   pc, dev, conn_id, outbox, cur, wire, tasks, handled,
                   nlines, nevents, lastAdd, removal, hello, exit, servers,
                   sent, lru, disk, icon, ops, ret, okput, udp, nsend, tcp,
                   psend, rxn, plog, fetches, tray, rbuf, mpris, audio>>

\* the task, rx.recv() = Some(current_arg) (22-33)
DebouncerRecv ==
    /\ deb.pc = "loop"
    /\ deb.chan # <<>>
    /\ LET current_arg == Head(deb.chan)
       IN deb' =
            IF deb.last_arg = <<current_arg>>
            THEN [deb EXCEPT !.chan = Tail(@)]
            ELSE [deb EXCEPT !.chan = Tail(@),
                             !.out = @ \o deb.last_arg,
                             !.last_arg = <<current_arg>>,
                             !.became = Append(@, current_arg)]
    /\ UNCHANGED <<NEXT_CONN_ID, queue, devices, active_device_count, actor,
                   pc, dev, conn_id, outbox, cur, wire, tasks, handled,
                   nlines, nevents, lastAdd, removal, hello, exit, servers,
                   sent, lru, disk, icon, ops, ret, okput, udp, nsend, tcp,
                   psend, rxn, plog, fetches, tray, rbuf, mpris, audio>>

\* the task, rx.recv() = None (34-40): the channel is closed and empty
DebouncerClosed ==
    /\ deb.pc = "loop"
    /\ deb.chan = <<>>
    /\ ~deb.open
    /\ deb' = [deb EXCEPT !.out = @ \o deb.last_arg, !.last_arg = <<>>,
                          !.pc = "ended"]
    /\ UNCHANGED <<NEXT_CONN_ID, queue, devices, active_device_count, actor,
                   pc, dev, conn_id, outbox, cur, wire, tasks, handled,
                   nlines, nevents, lastAdd, removal, hello, exit, servers,
                   sent, lru, disk, icon, ops, ret, okput, udp, nsend, tcp,
                   psend, rxn, plog, fetches, tray, rbuf, mpris, audio>>

\* the timeout fires while something is pending and is not given back
DebouncerTimeout_NoTake ==
    /\ deb.pc = "loop"
    /\ deb.last_arg # <<>>
    /\ deb' = [deb EXCEPT !.out = @ \o deb.last_arg]
    /\ UNCHANGED <<NEXT_CONN_ID, queue, devices, active_device_count, actor,
                   pc, dev, conn_id, outbox, cur, wire, tasks, handled,
                   nlines, nevents, lastAdd, removal, hello, exit, servers,
                   sent, lru, disk, icon, ops, ret, okput, udp, nsend, tcp,
                   psend, rxn, plog, fetches, tray, rbuf, mpris, audio>>

\* the task, the sleep branch (42-45), enabled if last_arg.is_some()
DebouncerTimeout ==
    /\ deb.pc = "loop"
    /\ deb.last_arg # <<>>
    /\ deb' = [deb EXCEPT !.out = @ \o deb.last_arg, !.last_arg = <<>>]
    /\ UNCHANGED <<NEXT_CONN_ID, queue, devices, active_device_count, actor,
                   pc, dev, conn_id, outbox, cur, wire, tasks, handled,
                   nlines, nevents, lastAdd, removal, hello, exit, servers,
                   sent, lru, disk, icon, ops, ret, okput, udp, nsend, tcp,
                   psend, rxn, plog, fetches, tray, rbuf, mpris, audio>>

\* one Debouncer, its callers and its task
SpecDebounce ==
    Init /\ [][\/ \E arg \in {1, 2} : DebouncerCall(arg)
               \/ DebouncerDrop
               \/ DebouncerRecv
               \/ DebouncerClosed
               \/ DebouncerTimeout]_vars

(***************************************************************************)
(* The main listener (main.rs:86-101, 360).                                *)
(***************************************************************************)
\* const MIN_PORT: u16 = 1716 and const MAX_PORT: u16 = 1764 in
\* open_tcp_server
TCP_MIN_PORT == 1716
TCP_MAX_PORT == 1764

\* the loop of open_tcp_server from `port` on: bind succeeds on the ports
\* in `free` and fails with an error of kind `kind` on the others;
\* last_error is the error of the latest failed attempt
RECURSIVE BindFrom(_, _, _, _)
BindFrom(port, free, kind, last_error) ==
    IF port > TCP_MAX_PORT
    THEN [result |-> "err", port |-> 0, error |-> last_error]
    ELSE IF port \in free
    THEN [result |-> "ok", port |-> port, error |-> [port |-> 0, kind |-> ""]]
    ELSE BindFrom(port + 1, free, kind, [port |-> port, kind |-> kind])

\* faulty variant: the error of the first attempt is kept
open_tcp_server_FirstError(free, kind) ==
    LET ok == free \cap (TCP_MIN_PORT..TCP_MAX_PORT) IN
      IF ok = {}
      THEN [result |-> "err", port |-> 0,
            error |-> [port |-> TCP_MIN_PORT, kind |-> kind]]
      ELSE [result |-> "ok", port |-> CHOOSE p \in ok : \A q \in ok : p <= q,
            error |-> [port |-> 0, kind |-> ""]]

\* open_tcp_server (86-101)
open_tcp_server(free, kind) ==
    BindFrom(TCP_MIN_PORT, free, kind, [port |-> 0, kind |-> ""])

\* main (360): the one call of open_tcp_server
OpenTcpServer(free, kind) ==
    /\ ~tcp.called
    /\ tcp' = [called |-> TRUE, free |-> free, kind |-> kind]
                 @@ open_tcp_server(free, kind)
    /\ UNCHANGED <<NEXT_CONN_ID, queue, devices, active_device_count, actor,
                   pc, dev, conn_id, outbox, cur, wire, tasks, handled,
                   nlines, nevents, lastAdd, removal, hello, exit, servers,
                   sent, lru, disk, icon, ops, ret, okput, udp, nsend, psend,
                   rxn, plog, fetches, tray, rbuf, mpris, audio, deb>>

\* the call with the ports at both ends of the range, and the port after
\* it, free or not
SpecTcp ==
    Init /\ [][\E free \in SUBSET {1716, 1717, 1718, 1763, 1764, 1765},
                  kind \in {"AddrInUse", "PermissionDenied"} :
                  OpenTcpServer(free, kind)]_vars

(***************************************************************************)
(* Properties.                                                             *)
(***************************************************************************)
\* the actor takes a message of the given type off its queue in this step
ActorTakes(type) ==
    /\ actor.pc = "recv"
    /\ queue # <<>>
    /\ Head(queue).type = type
    /\ queue' = Tail(queue)

InQueue(msg) == \E i \in 1..Len(queue) : queue[i] = msg

Registered(c) == pc[c] \notin {"accept", "failed", "add_send", "add_wait"}

\* C1: when the actor processes RemoveDevice{id, c} and id is not in the map
\* or the stored conn_id differs from c, the device map and the published
\* active_device_count are left unchanged.
C1_StaleRemoveDeviceChangesNothing ==
    [][(/\ ActorTakes("RemoveDevice")
        /\ \/ ~devices[Head(queue).id].present
           \/ devices[Head(queue).id].conn_id # Head(queue).conn_id)
       => /\ devices' = devices
          /\ active_device_count' = active_device_count]_vars

\* a RemoveDevice met the record of a newer connection and was processed
C1_Witness ==
    \E c \in Conns :
        /\ removal[c] = "stale"
        /\ devices[dev[c]].present
        /\ devices[dev[c]].conn_id # conn_id[c]

\* C2: once a second connection of a device has replaced the record in
\* place, the RemoveDevice of the first connection leaves the record (with
\* the second connection's conn_id and outbox) and the count as they are;
\* the record of a connection is removed only by the RemoveDevice that
\* carries that connection's own conn_id.
C2_ReconnectRace ==
    [][\A d \in Devices :
         devices[d].present =>
           /\ (ActorTakes("RemoveDevice") /\ Head(queue).id = d
               /\ Head(queue).conn_id # conn_id[devices[d].tx])
              => /\ devices'[d] = devices[d]
                 /\ active_device_count' = active_device_count
                 /\ active_device_count' >= 1
           /\ ~devices'[d].present
              => /\ ActorTakes("RemoveDevice")
                 /\ Head(queue) = RemoveDeviceMsg(d, conn_id[devices[d].tx])]_vars

\* the first connection's RemoveDevice was fenced and the device is still
\* registered under the second connection
C2_Witness ==
    \E c1, c2 \in Conns :
        /\ dev[c1] = dev[c2]
        /\ conn_id[c1] < conn_id[c2]
        /\ removal[c1] = "stale"
        /\ devices[dev[c2]].present
        /\ devices[dev[c2]].conn_id = conn_id[c2]
        /\ devices[dev[c2]].tx = c2
        /\ active_device_count = 1

\* C3: every id in the map has one record, whose conn_id is the conn_id
\* carried by the last AddDevice the actor processed for that id.
C3_ConnIdIsLastAddDevice ==
    \A d \in Devices :
        devices[d].present =>
            /\ devices[d].conn_id = lastAdd[d]
            /\ \E c \in Conns :
                 /\ devices[d].tx = c
                 /\ dev[c] = d
                 /\ conn_id[c] = lastAdd[d]

\* two AddDevice of the same id have been processed
C3_Witness ==
    \E c1, c2 \in Conns :
        /\ c1 # c2
        /\ dev[c1] = dev[c2]
        /\ Registered(c1)
        /\ Registered(c2)
        /\ devices[dev[c1]].present
        /\ devices[dev[c1]].conn_id = lastAdd[dev[c1]]

\* C4: the conn_id stored in a device's record strictly increases each time
\* an AddDevice for that id is processed.
C4_ConnIdStrictlyIncreases ==
    [][\A d \in Devices :
         (/\ ActorTakes("AddDevice")
          /\ Head(queue).id = d
          /\ devices[d].present)
         => devices'[d].conn_id > devices[d].conn_id]_vars

\* C5: whenever the actor is waiting for the next message, the published
\* active_device_count equals the number of records in the map.
C5_CountEqualsMapSize ==
    actor.pc = "recv" => active_device_count = Cardinality(DeviceKeys)

\* a record has been removed while another device stays registered
C5_Witness ==
    /\ actor.pc = "recv"
    /\ \E c \in Conns : removal[c] = "removed"
    /\ Cardinality(DeviceKeys) = 1

\* C6: every connection that registered with AddDevice issues
\* RemoveDevice(id, its own conn_id) once its loop has ended: a connection
\* task that has returned has issued it.
C6_RemoveDeviceIssued ==
    \A c \in Conns : pc[c] = "done" => removal[c] # "none"

\* C7: no reachable state has the actor blocked in an outbox send while the
\* connection task that must drain that outbox is itself blocked sending a
\* Packet or RemoveDevice message into the actor's full queue.
C7_NoDeadlock ==
    ~ \E c \in Conns :
        /\ actor.pc = "send"
        /\ devices[actor.device_id].tx = c
        /\ ~OutboxSendReady(c)
        /\ ~QueueHasRoom
        /\ \/ pc[c] = "grace"
           \/ pc[c] = "line" /\ ParseOk(cur[c]) /\ cur[c] # PACKET_TYPE_PAIR

\* C8: a stalled peer does not affect other devices.  If device A's
\* connection has stopped draining its outbox and the outbox is full, a
\* SendPacket addressed to another registered device B is still placed in
\* B's outbox: it is never left waiting in the queue of an actor that is
\* itself suspended in the send to A's full outbox (a stalled connection
\* never takes from its outbox again, so from such a state B's packet can
\* never be placed).
StalledFull(a) ==
    /\ pc[a] = "stalled"
    /\ devices[dev[a]].present
    /\ devices[dev[a]].tx = a
    /\ Len(outbox[a]) = OutboxCap

SendPacketWaiting(b) ==
    /\ devices[b].present
    /\ pc[devices[b].tx] = "loop"
    /\ outbox[devices[b].tx] = <<>>
    /\ InQueue(SendPacketMsg(b, BatteryReport))

ActorBlockedOn(a) ==
    /\ actor.pc = "send"
    /\ devices[actor.device_id].tx = a

C8_StalledPeerDoesNotBlockOthers ==
    \A b \in Devices, a \in Conns :
        ~ (/\ dev[a] # b
           /\ StalledFull(a)
           /\ ActorBlockedOn(a)
           /\ SendPacketWaiting(b))

\* C9: handle is called on a plugin only for a packet type in that plugin's
\* inbound capability set, and only on the first plugin in registration
\* order whose set contains the type.
IsFirstMatch(plugins, name, typ) ==
    \E i \in 1..Len(plugins) :
        /\ plugins[i].name = name
        /\ typ \in plugins[i].in_caps
        /\ \A j \in 1..(i - 1) : typ \notin plugins[j].in_caps

C9_OnlyFirstMatchingPluginHandles ==
    \A h \in handled :
        \E mprisOk \in BOOLEAN :
            IsFirstMatch(NewPluginRepository(mprisOk), h[1], h[2])

\* a plugin that is not the first of the list has handled a packet
C9_Witness == <<"ping", "kdeconnect.ping">> \in handled

\* C10 (as claimed): every pair packet read by the loop is answered with a
\* pair packet {pair: true} and the loop continues.
PairTrue == [typ |-> "kdeconnect.pair", body |-> [pair |-> TRUE]]

PairHandled(c) ==
    /\ pc[c] = "line"
    /\ cur[c] = "kdeconnect.pair"
    /\ pc'[c] # "line"

NoPairDispatched ==
    /\ \A i \in 1..Len(queue) :
         queue[i].type = "Packet" => queue[i].typ # "kdeconnect.pair"
    /\ \A t \in BagToSet(tasks) :
         t.kind = "handle_packet" => t.typ # "kdeconnect.pair"
    /\ \A h \in handled : h[2] # "kdeconnect.pair"

NoPluginAccepts(typ) ==
    \A mprisOk \in BOOLEAN : handle_packet(NewPluginRepository(mprisOk), typ) = 0

LoopGoesOn(c) ==
    \/ pc'[c] = "loop" /\ exit'[c] = "none"
    \/ pc'[c] = "grace" /\ exit'[c] = "flush"

DropsLine(c) ==
    /\ pc[c] = "line"
    /\ ~ParseOk(cur[c])
    /\ pc'[c] # "line"

DispatchesUnknown(c) ==
    /\ pc[c] = "line"
    /\ ParseOk(cur[c])
    /\ cur[c] # PACKET_TYPE_PAIR
    /\ NoPluginAccepts(cur[c])
    /\ pc'[c] # "line"

DropsUnknown(t) ==
    /\ t.kind = "handle_packet"
    /\ NoPluginAccepts(t.typ)
    /\ tasks' = Finish(tasks, t)

GoodHello == [first |-> "kdeconnect.identity", tls |-> TRUE]

C12_HandshakeFailuresRegisterNothing ==
    /\ [](\A c \in Conns :
            /\ pc[c] \notin {"accept", "failed"} => hello[c] = GoodHello
            /\ pc[c] = "failed" =>
                 /\ conn_id[c] = -1
                 /\ \A d \in Devices : devices[d].present => devices[d].tx # c
                 /\ \A i \in 1..Len(queue) :
                      queue[i].type = "AddDevice" => queue[i].tx # c)
    /\ [][\A c \in Conns :
            (pc[c] = "accept" /\ pc'[c] # "accept" /\ hello'[c] # GoodHello)
            => /\ pc'[c] = "failed"
               /\ UNCHANGED <<queue, devices, active_device_count,
                              NEXT_CONN_ID, conn_id, outbox>>]_vars

\* a connection failed the TLS upgrade after a valid identity line, while
\* another device is registered
C12_Witness ==
    \E c \in Conns :
        /\ pc[c] = "failed"
        /\ hello[c] = [first |-> "kdeconnect.identity", tls |-> FALSE]
        /\ active_device_count = 1

\* C13: the payload server started for one outbound packet accepts exactly
\* one connection: no second connection to the same server is accepted or
\* served.
C13_PayloadServerAcceptsOne ==
    \A k \in 1..Len(servers) :
        /\ servers[k].accepted <= 1
        /\ servers[k].served <= 1

\* C14: every packet written with payloadSize and payloadTransferInfo.port
\* has exactly one server task, spawned by the same send_packet call before
\* the write, which listens (or listened) on that port and holds exactly
\* payloadSize bytes; no two packets share a server, and no two listeners
\* are bound to one port at the same time.
C14_PayloadPacketHasItsServer ==
    /\ \A i \in 1..Len(sent) :
         sent[i].has_payload =>
            /\ sent[i].server \in 1..Len(servers)
            /\ servers[sent[i].server].port = sent[i].port
            /\ Len(servers[sent[i].server].data) = sent[i].payload_size
            /\ sent[i].port >= MIN_PORT
            /\ \A j \in 1..Len(sent) :
                 (j # i /\ sent[j].has_payload)
                 => sent[j].server # sent[i].server
    /\ \A k, m \in 1..Len(servers) :
         (k # m /\ servers[k].listener /\ servers[m].listener)
         => servers[k].port # servers[m].port

\* two packets with payloads are on the wire while both servers listen
C14_Witness ==
    /\ Len(sent) >= 2
    /\ sent[1].has_payload
    /\ sent[2].has_payload
    /\ servers[sent[1].server].listener
    /\ servers[sent[2].server].listener
    /\ sent[1].payload_size # sent[2].payload_size

\* C15: once the timer of a payload server has fired, its task is over and
\* its listener released, however many clients connected; a task that is
\* over accepts and serves nothing more.
C15_PayloadServerEndsWithTimer ==
    /\ [](\A k \in 1..Len(servers) :
            /\ servers[k].timer = "fired"
               => servers[k].state = "done" /\ ~servers[k].listener
            /\ servers[k].state = "done" => ~servers[k].listener)
    /\ [][\A k \in 1..Len(servers) :
            servers[k].state = "done" => servers'[k] = servers[k]]_vars

\* timers have fired on a server with no client and on one with several
C15_Witness ==
    \E k, m \in 1..Len(servers) :
        /\ servers[k].timer = "fired"
        /\ servers[k].accepted = 0
        /\ servers[m].timer = "fired"
        /\ servers[m].accepted = MaxClients

\* C16: when the number of bytes read for an inbound payload differs from
\* the declared size, fetch_payload returns an error and the icon path of
\* show_notification ends there: no put is pending and the LRU and the
\* files are as they were.
C16_SizeMismatchWritesNothing ==
    /\ []((ret.op = "fetch" /\ ret.nread # ret.size)
           => ret.result = Err /\ icon = NoIcon)
    /\ [][(ops'.shows = ops.shows + 1 /\ ret'.op = "fetch"
            /\ ret'.nread # ret'.size)
           => /\ icon' = NoIcon
              /\ UNCHANGED <<lru, disk, okput>>]_vars

\* a fetch for a name without a file read fewer bytes than declared, with
\* other names in the cache
C16_Witness ==
    /\ ret.op = "fetch"
    /\ ret.nread = 1
    /\ ret.size = 2
    /\ ~disk[ret.name].exists
    /\ lru # <<>>

\* C17: the cache is write-once by name.  Once a put(n, b1) has returned
\* Ok, the file of n and the LRU entry of n (when there is one) hold b1
\* whatever puts and gets follow, and get(n) returns b1.
C17_PayloadCacheWriteOnce ==
    /\ \A n \in Names :
         okput[n].exists =>
            /\ disk[n] = okput[n]
            /\ InLru(lru, n) => LruData(lru, n) = okput[n].bytes
    /\ (ret.op = "get" /\ okput[ret.name].exists)
       => ret.result = Some(okput[ret.name].bytes)

\* C18: the LRU never holds more than LRU_CAPACITY names.  Inserting a new
\* name into a full LRU removes the least recently used entry from memory
\* only: the other entries keep their order and the file of the evicted
\* name stays.  A get for a name that is not in the LRU but has a file
\* returns the bytes of the file and makes the name the most recently used
\* entry.
C18_LruBoundedEvictionKeepsFile ==
    /\ [](/\ Len(lru) <= LRU_CAPACITY
          /\ \A i, j \in 1..Len(lru) : lru[i].name = lru[j].name => i = j)
    /\ [][(/\ Len(lru) = LRU_CAPACITY
            /\ \E n \in Names : ~InLru(lru, n) /\ InLru(lru', n))
           => /\ Len(lru') = LRU_CAPACITY
              /\ \A i \in 1..(LRU_CAPACITY - 1) : lru'[i] = lru[i + 1]
              /\ disk'[lru[1].name] = disk[lru[1].name]]_vars
    /\ [][(/\ ops'.gets = ops.gets + 1
            /\ ~InLru(lru, ret'.name)
            /\ disk[ret'.name].exists)
           => /\ ret'.result = Some(disk[ret'.name].bytes)
              /\ lru'[Len(lru')] = Entry(ret'.name, disk[ret'.name].bytes)
              /\ disk' = disk]_vars

\* eleven names were put in order, which evicted the first; the only get
\* then read the first name back from its file, which evicted the second
C18_Witness ==
    /\ ops = [names |-> LRU_CAPACITY + 1, gets |-> 1, reputs |-> 0,
              werrs |-> 0, shows |-> 0]
    /\ ret.op = "get"
    /\ ret.name = 1
    /\ ret.result = Some(<<7>>)
    /\ Len(lru) = LRU_CAPACITY
    /\ lru[LRU_CAPACITY].name = 1
    /\ ~InLru(lru, 2)
    /\ disk[2].exists

\* C19: at every iteration of the discovery loop send_to is called once if
\* the active_device_count read in that iteration is 0 and not at all
\* otherwise; a datagram leaves only in an iteration that read 0, and at
\* most one.
C19_BroadcastIffNoActiveDevice ==
    [][udp'.ticks = udp.ticks + 1
       => /\ udp'.seen = active_device_count
          /\ udp'.calls - udp.calls = (IF active_device_count = 0 THEN 1 ELSE 0)
          /\ udp'.sent - udp.sent \in {0, 1}
          /\ udp'.sent - udp.sent <= udp'.calls - udp.calls]_vars

\* the loop has advertised, then met a registered device and kept quiet
C19_Witness ==
    /\ udp.ticks = MaxTicks
    /\ udp.sent >= 1
    /\ udp.calls < udp.ticks
    /\ udp.seen > 0
    /\ active_device_count > 0

\* C20: for every connection, the packets written to the stream, followed
\* by the packet waiting in its channel, the packet the actor is trying to
\* put there and the SendPacket messages still in the queue, are in the order
\* in which send_packet queued them, each once: nothing written overtakes
\* or repeats what the actor processed before it.
C20_WireKeepsActorOrder ==
    \A c \in Conns :
       LET held == IF /\ actor.pc = "send"
                     /\ devices[actor.device_id].present
                     /\ devices[actor.device_id].tx = c
                  THEN <<actor.packet>> ELSE <<>>
           msgs == SelectSeq(queue, LAMBDA m : m.type = "SendPacket")
           chain == wire[c] \o outbox[c] \o held
                       \o [i \in 1..Len(msgs) |-> msgs[i].packet]
       IN \A i, j \in 1..Len(chain) :
             i < j => chain[i].body.seq < chain[j].body.seq

\* two packets are on the wire of a connection and a third waits in its
\* channel
C20_Witness ==
    \E c \in Conns :
       /\ Len(wire[c]) = 2
       /\ outbox[c] # <<>>
       /\ wire[c][2].body.seq = 2
       /\ pc[c] = "loop"

\* C30: every packet type of the advertised incoming capabilities is
\* accepted by a plugin of the plugin repository of every device in the map,
\* and the union of the capability sets of the registered plugins is the
\* advertised set.
C30_AdvertisedCapsAreAccepted ==
    \A d \in Devices :
       devices[d].present =>
          /\ \A typ \in ALL_CAPS : handle_packet(devices[d].plugin_repo, typ) # 0
          /\ UNION {devices[d].plugin_repo[i].in_caps :
                       i \in 1..Len(devices[d].plugin_repo)} = ALL_CAPS

\* C25: when the actor processes the AddDevice of connection c for an id
\* that is in the map, the record of that id keeps its name and its plugin
\* repository and takes the address, the conn_id and the outbox sender of
\* c; the other records, the number of records and the spawned tasks are
\* unchanged.
C25_ReconnectKeepsNameAndPlugins ==
    [][\A c \in Conns :
          (/\ pc[c] = "add_wait"
           /\ pc'[c] = "loop"
           /\ devices[dev[c]].present)
          => /\ devices' = [devices EXCEPT ![dev[c]].remote_ip = c,
                                           ![dev[c]].conn_id = conn_id[c],
                                           ![dev[c]].tx = c]
             /\ devices'[dev[c]].name = devices[dev[c]].name
             /\ devices'[dev[c]].plugin_repo = devices[dev[c]].plugin_repo
             /\ active_device_count' = active_device_count
             /\ tasks' = tasks]_vars

\* the record made for connection 1 while MPRIS could not be built now
\* belongs to connection 2
C25_Witness ==
    /\ devices["A"].present
    /\ devices["A"].name = 1
    /\ devices["A"].plugin_repo = NewPluginRepository(FALSE)
    /\ devices["A"].remote_ip = 2
    /\ devices["A"].tx = 2
    /\ devices["A"].conn_id = conn_id[2]
    /\ pc[2] = "loop"

\* C24: open_tcp_server returns the lowest port of 1716..1764 on which bind
\* succeeds, with the listener on that port; when bind fails on every port
\* of the range it returns the error of the attempt on port 1764 and there
\* is no listener.
C24_LowestFreePortOrLastError ==
    tcp.called =>
       LET ok == {p \in tcp.free : 1716 <= p /\ p <= 1764} IN
         IF ok # {}
         THEN /\ tcp.result = "ok"
              /\ tcp.port \in ok
              /\ \A q \in ok : tcp.port <= q
         ELSE /\ tcp.result = "err"
              /\ tcp.error = [port |-> 1764, kind |-> tcp.kind]
              /\ tcp.port = 0

\* bind failed on all forty-nine ports while the port after the range was
\* free
C24_Witness ==
    /\ tcp.called
    /\ tcp.free = {1765}
    /\ tcp.result = "err"
    /\ tcp.error.port = 1764

\* C26: a connection that is in its loop when the outbox sender of its
\* channel is gone (the record was removed, or a reconnect put another
\* sender into it) does not return from handle_conn other than through the
\* end of its loop, the grace sleep and its RemoveDevice.
C26_ClosedOutboxEndsInRemoveDevice ==
    [][\A c \in Conns :
          (pc[c] \in {"loop", "line"} /\ ~SenderAlive(c))
          => pc'[c] # "done"]_vars

\* C29: when send_packet is called for a packet with a payload and no
\* listener can be bound, the packet is written without payload fields, no
\* server task is spawned and the task goes on with its loop.
C29_NoListenerStillWritesPacket ==
    [][psend'.nobind = psend.nobind + 1
       => /\ sent' = Append(sent, PlainPacket)
          /\ servers' = servers
          /\ psend'.pc = "loop"]_vars

C22_HungPluginBlocksNoOther ==
    \A t \in BagToSet(tasks) :
       (t.kind = "handle_event_at" /\ t.hung)
       => \A j \in 1..Len(t.pr) : j <= t.at

\* C23: a call of handle that returns an error changes nothing but the
\* log: the device map with its conn_id and plugin repository, the
\* connections, the queue and the outboxes are as before, no second call is
\* made for the packet, and a later packet of the same type of that device
\* goes to the same plugin.
C23_HandleErrorIsOnlyLogged ==
    /\ [][(Len(plog') = Len(plog) + 1 /\ plog'[Len(plog')].result = "err")
          => /\ UNCHANGED <<devices, active_device_count, queue, outbox,
                            actor>>
             /\ UNCHANGED <<pc, dev, conn_id, cur, wire, exit, removal>>]_vars
    /\ [](\A i, j \in 1..Len(plog) :
            /\ plog[i].n = plog[j].n => i = j
            /\ (i < j /\ plog[i].dev = plog[j].dev /\ plog[i].typ = plog[j].typ)
               => plog[j].plugin = plog[i].plugin)

\* the ping plugin failed on the first ping of connection 1 and was given
\* the second ping of the same connection, the record being the same
C23_Witness ==
    /\ Len(plog) = 2
    /\ plog[1] = [dev |-> "A", conn |-> 1, n |-> 1, typ |-> "kdeconnect.ping",
                  plugin |-> "ping", result |-> "err"]
    /\ plog[2] = [dev |-> "A", conn |-> 1, n |-> 2, typ |-> "kdeconnect.ping",
                  plugin |-> "ping", result |-> "ok"]
    /\ devices["A"].present
    /\ devices["A"].conn_id = conn_id[1]
    /\ pc[1] = "loop"

\* C27: handling FetchPayload leaves the actor receiving, whether it
\* spawned the fetch or replied "Device not found"; every request gets at
\* most one reply and a finished one exactly one; a request for an id that
\* was not in the map got an error and no connection was opened for it.
C27_FetchNeverBlocksActor ==
    /\ [][(\E k \in 1..Len(fetches) :
              fetches[k].state = "queued" /\ fetches'[k].state # "queued")
          => actor.pc = "recv" /\ actor'.pc = "recv"]_vars
    /\ [](\A k \in 1..Len(fetches) :
            /\ Len(fetches[k].replies) <= 1
            /\ fetches[k].state = "done" <=> Len(fetches[k].replies) = 1
            /\ fetches[k].state = "running"
               <=> \E t \in BagToSet(tasks) : t.kind = "fetch" /\ t.reply = k
            /\ (fetches[k].state = "done" /\ ~fetches[k].found)
               => fetches[k].replies = <<Err>> /\ fetches[k].opened = 0)

\* while the first fetch is still running the actor has processed a later
\* AddDevice, and the second fetch, for an id not in the map, has its error
C27_Witness ==
    /\ Len(fetches) = 2
    /\ fetches[1].state = "running"
    /\ fetches[1].then # lastAdd
    /\ fetches[2].state = "done"
    /\ ~fetches[2].found
    /\ fetches[2].replies = <<Err>>

\* C28: while a broadcast is processed the device map is the one it started
\* with and every device of that map is either still to be visited or has
\* been visited once; a visit puts the packet at the end of that device's
\* outbox and changes no other outbox, or, when the outbox is closed, puts
\* nothing anywhere, and in both cases the loop goes on to the next device.
C28_BroadcastReachesEveryDevice ==
    /\ [](actor.pc = "bcast" =>
            /\ DeviceKeys = actor.targets
            /\ Len(actor.log) + Len(actor.left) = Cardinality(actor.targets)
            /\ {actor.log[i].dev : i \in DOMAIN actor.log}
                 \cup {actor.left[i] : i \in DOMAIN actor.left} = actor.targets)
    /\ [][actor.pc = "bcast" => devices' = devices]_vars
    /\ [][(actor.pc = "bcast" /\ actor'.pc = "bcast" /\ actor' # actor) =>
            LET d == Head(actor.left)
                c == devices[d].tx
                last == actor'.log[Len(actor'.log)]
            IN /\ Len(actor'.log) = Len(actor.log) + 1
               /\ last.dev = d
               /\ last.ok => outbox' = [outbox EXCEPT
                                          ![c] = Append(@, actor.packet)]
               /\ ~last.ok => outbox' = outbox /\ ReceiverDropped(c)]_vars

\* the broadcast is over: the first device visited had a closed outbox and
\* the second got the packet
C28_Witness ==
    /\ actor.pc = "bcast"
    /\ actor.left = <<>>
    /\ Len(actor.log) = 2
    /\ ~actor.log[1].ok
    /\ actor.log[2].ok
    /\ actor.packet \in {outbox[devices[actor.log[2].dev].tx][i] :
                            i \in DOMAIN outbox[devices[actor.log[2].dev].tx]}

\* C31: whenever the actor is between two messages, the icon last sent is
\* the 'device present' icon exactly when the map is not empty, and the menu
\* last sent has one item, with the record's name and address, for each
\* device of the map and for no other.
C31_TrayFollowsDeviceMap ==
    actor.pc = "recv" =>
        /\ tray.icon = "ICON_CELLPHONE" <=> DeviceKeys # {}
        /\ tray.icon \in {"ICON_CELLPHONE", "ICON_CELLPHONE_OFF"}
        /\ DOMAIN tray.menu = DeviceKeys
        /\ \A d \in DeviceKeys :
              /\ tray.menu[d].name = devices[d].name
              /\ tray.menu[d].remote_ip = devices[d].remote_ip

\* a device reconnected from another address and the RemoveDevice of its
\* first connection has been handled: the menu shows the new address under
\* the old name
C31_Witness ==
    /\ actor.pc = "recv"
    /\ \E d \in DeviceKeys : tray.menu[d].name # tray.menu[d].remote_ip
    /\ \E c \in Conns : removal[c] = "stale"
    /\ tray.icon = "ICON_CELLPHONE"

\* C32: when a read_line completes, the line handed to the parser is the
\* line the peer sent, whether or not the outbox branch has won the race
\* since its first bytes were read.
C32_NoInboundBytesLost ==
    [][\A c \in Conns :
         (rbuf[c].state # "none" /\ rbuf'[c].state = "none")
         => cur'[c] = rbuf[c].line]_vars

C34_DispatchKeyedByDeviceId ==
    /\ [][(actor.pc = "recv" /\ queue # <<>> /\ Head(queue).type = "Packet"
            /\ queue' = Tail(queue))
          => LET msg == Head(queue) IN
               /\ plog' = plog
               /\ IF devices[msg.device_id].present
                  THEN \E t \in BagToSet(tasks') :
                          /\ tasks' = Spawn(tasks, t)
                          /\ t.n = msg.n
                          /\ t.dev = msg.device_id
                          /\ t.pr = devices[msg.device_id].plugin_repo
                          /\ t.repo = devices[msg.device_id].name
                  ELSE tasks' = tasks]_vars
    /\ [][Len(plog') = Len(plog) + 1 =>
            \E t \in BagToSet(tasks) :
               /\ tasks' = Finish(tasks, t)
               /\ plog'[Len(plog')].n = t.n
               /\ plog'[Len(plog')].dev = dev[t.conn]]_vars

\* two packets have been processed: the one task there is holds a packet
\* read by connection 1 and processed when the record belonged to connection
\* 2; the other packet met no record and has left no task and no call
C34_Witness ==
    /\ rxn = 2
    /\ queue = <<>>
    /\ plog = <<>>
    /\ \E t \in BagToSet(tasks) :
          /\ tasks = Spawn(EmptyBag, t)
          /\ t.conn = 1
          /\ t.at = conn_id[2]

\* C35: the plugin holding its players lock while it waits for room in the
\* actor's queue, and the actor waiting for that lock inside update_tray,
\* are never both the case.
C35_NoLockQueueCycle ==
    ~(/\ mpris.pc = "locked"
      /\ ~QueueHasRoom
      /\ actor.pc = "tray_menu")

\* C36: every tick of the discovery loop, also one whose send_to failed,
\* leaves the loop running, so that a later tick that reads a count of 0
\* broadcasts again.
C36_DiscoveryKeepsTicking ==
    [][udp'.ticks = udp.ticks + 1 => udp'.pc = "loop"]_vars

\* C37: what the cache returns from memory is on disk: when get(n) has
\* returned Some(b), the file of n exists and holds b, so that get_path(n)
\* is Some as well.
C37_GetImpliesFile ==
    (ret.op = "get" /\ ret.result.tag = "Some")
    => /\ disk[ret.name].exists
       /\ disk[ret.name].bytes = ret.result.data

\* C38: the audio manager waiting for room in the subscriber's notification
\* channel, and the subscriber waiting for the manager's reply to
\* get_audio_sink_info, are never both the case.
C38_AudioManagerNeverDeadlocks ==
    ~(/\ audio.pc = "emit"
      /\ Len(audio.notify) = AudioChannelCap
      /\ audio.sub = "await"
      /\ ~audio.reply)

\* C39: the callback gets each value that became pending exactly once and
\* in submission order: the invocations followed by the pending value are
\* the values stored in last_arg; those are a subsequence of the values
\* received from call (nothing invented, order kept), and the received
\* values with repeats of the preceding value removed are a subsequence of
\* them (only a value equal to the pending one is ignored); once the channel
\* is closed and the task has ended nothing is pending.
C39_DebouncerDeliversOnceInOrder ==
    LET RECURSIVE IsSubseq(_, _)
        IsSubseq(a, b) ==
            IF a = <<>> THEN TRUE
            ELSE IF b = <<>> THEN FALSE
            ELSE IF Head(a) = Head(b) THEN IsSubseq(Tail(a), Tail(b))
            ELSE IsSubseq(a, Tail(b))
        RECURSIVE Dedup(_)
        Dedup(a) ==
            IF Len(a) < 2 THEN a
            ELSE IF a[1] = a[2] THEN Dedup(Tail(a))
            ELSE <<a[1]>> \o Dedup(Tail(a))
        received == SubSeq(deb.calls, 1, Len(deb.calls) - Len(deb.chan))
    IN /\ deb.out \o deb.last_arg = deb.became
       /\ IsSubseq(deb.became, received)
       /\ IsSubseq(Dedup(received), deb.became)
       /\ deb.pc = "ended" => deb.last_arg = <<>> /\ deb.chan = <<>>

\* a repeat was ignored, a change and the timeout each flushed a value, and
\* closing the channel flushed the last one
C39_Witness ==
    /\ deb.pc = "ended"
    /\ deb.calls = <<1, 1, 2, 2>>
    /\ deb.out = <<1, 2, 2>>

====
